---------------------------- MODULE Spec2Model ----------------------------
(***************************************************************************)
(* Page Analysis Engine of the Playwright-BDD assistant                    *)
(* (src/src/playwrightAnalyzer.ts, class PlaywrightPageAnalyzer).           *)
(*                                                                         *)
(* JavaScript strings are modelled as sequences of one-character strings,  *)
(* so that trimming, lower-casing, substring search, truncation, quote     *)
(* escaping and template interpolation are computed character by           *)
(* character, as the code computes them.  The value null/undefined is the  *)
(* one-element sequence NULL, which no string of characters can equal.     *)
(***************************************************************************)
EXTENDS Integers, Sequences, FiniteSets, Bags

(***************************************************************************)
(* String literals of the source.                                          *)
(***************************************************************************)
\* unnamed element
S_unnamed == <<"u", "n", "n", "a", "m", "e", "d", " ", "e", "l", "e", "m",
    "e", "n", "t">>

\* button
S_button == <<"b", "u", "t", "t", "o", "n">>

\* link
S_link == <<"l", "i", "n", "k">>

\* textbox
S_textbox == <<"t", "e", "x", "t", "b", "o", "x">>

\* checkbox
S_checkbox == <<"c", "h", "e", "c", "k", "b", "o", "x">>

\* radio
S_radio == <<"r", "a", "d", "i", "o">>

\* combobox
S_combobox == <<"c", "o", "m", "b", "o", "b", "o", "x">>

\* generic
S_generic == <<"g", "e", "n", "e", "r", "i", "c">>

\* input
S_input == <<"i", "n", "p", "u", "t">>

\* a
S_a == <<"a">>

\* select
S_select == <<"s", "e", "l", "e", "c", "t">>

\* textarea
S_textarea == <<"t", "e", "x", "t", "a", "r", "e", "a">>

\* text
S_text == <<"t", "e", "x", "t">>

\* email
S_email == <<"e", "m", "a", "i", "l">>

\* password
S_password == <<"p", "a", "s", "s", "w", "o", "r", "d">>

\* search
S_search == <<"s", "e", "a", "r", "c", "h">>

\* submit
S_submit == <<"s", "u", "b", "m", "i", "t">>

\* heading
S_heading == <<"h", "e", "a", "d", "i", "n", "g">>

\* paragraph
S_paragraph == <<"p", "a", "r", "a", "g", "r", "a", "p", "h">>

\* image
S_image == <<"i", "m", "a", "g", "e">>

\* list
S_list == <<"l", "i", "s", "t">>

\* table
S_table == <<"t", "a", "b", "l", "e">>

\* p
S_p == <<"p">>

\* img
S_img == <<"i", "m", "g">>

\* ul
S_ul == <<"u", "l">>

\* page.getByTestId('
L_testid == <<"p", "a", "g", "e", ".", "g", "e", "t", "B", "y", "T", "e",
    "s", "t", "I", "d", "(", "'">>

\* page.getByLabel('
L_label == <<"p", "a", "g", "e", ".", "g", "e", "t", "B", "y", "L", "a", "b",
    "e", "l", "(", "'">>

\* page.getByRole('button', { name: '
L_roleButton == <<"p", "a", "g", "e", ".", "g", "e", "t", "B", "y", "R", "o",
    "l", "e", "(", "'", "b", "u", "t", "t", "o", "n", "'", ",", " ", "{",
    " ", "n", "a", "m", "e", ":", " ", "'">>

\* page.getByRole('link', { name: '
L_roleLink == <<"p", "a", "g", "e", ".", "g", "e", "t", "B", "y", "R", "o",
    "l", "e", "(", "'", "l", "i", "n", "k", "'", ",", " ", "{", " ", "n",
    "a", "m", "e", ":", " ", "'">>

\* page.getByRole('heading', { name: '
L_roleHeading == <<"p", "a", "g", "e", ".", "g", "e", "t", "B", "y", "R",
    "o", "l", "e", "(", "'", "h", "e", "a", "d", "i", "n", "g", "'", ",",
    " ", "{", " ", "n", "a", "m", "e", ":", " ", "'">>

\* ' })
L_roleEnd == <<"'", " ", "}", ")">>

\* page.getByPlaceholder('
L_placeholder == <<"p", "a", "g", "e", ".", "g", "e", "t", "B", "y", "P",
    "l", "a", "c", "e", "h", "o", "l", "d", "e", "r", "(", "'">>

\* page.locator('[name="
L_nameAttr == <<"p", "a", "g", "e", ".", "l", "o", "c", "a", "t", "o", "r",
    "(", "'", "[", "n", "a", "m", "e", "=", "\"">>

\* "]')
L_nameAttrEnd == <<"\"", "]", "'", ")">>

\* page.locator('#
L_idSel == <<"p", "a", "g", "e", ".", "l", "o", "c", "a", "t", "o", "r", "(",
    "'", "#">>

\* page.locator('
L_locator == <<"p", "a", "g", "e", ".", "l", "o", "c", "a", "t", "o", "r",
    "(", "'">>

\* ')
L_end == <<"'", ")">>

\* page.getByText('
L_text == <<"p", "a", "g", "e", ".", "g", "e", "t", "B", "y", "T", "e", "x",
    "t", "(", "'">>

\* page.getByAltText('
L_alt == <<"p", "a", "g", "e", ".", "g", "e", "t", "B", "y", "A", "l", "t",
    "T", "e", "x", "t", "(", "'">>

\* .
L_dot == <<".">>

\* :has-text("
L_hasText == <<":", "h", "a", "s", "-", "t", "e", "x", "t", "(", "\"">>

\* ")')
L_hasTextEnd == <<"\"", ")", "'", ")">>

\* h1
S_h1 == <<"h", "1">>

\* h2
S_h2 == <<"h", "2">>

\* h3
S_h3 == <<"h", "3">>

\* h4
S_h4 == <<"h", "4">>

\* h5
S_h5 == <<"h", "5">>

\* h6
S_h6 == <<"h", "6">>

\* ol
S_ol == <<"o", "l">>

\* unordered
S_unordered == <<"u", "n", "o", "r", "d", "e", "r", "e", "d">>

\* ordered
S_ordered == <<"o", "r", "d", "e", "r", "e", "d">>

\*  list with 
S_listWith == <<" ", "l", "i", "s", "t", " ", "w", "i", "t", "h", " ">>

\*  items
S_items == <<" ", "i", "t", "e", "m", "s">>

\* List with 
S_ListWith == <<"L", "i", "s", "t", " ", "w", "i", "t", "h", " ">>

\*  items. First item: 
S_itemsFirst == <<" ", "i", "t", "e", "m", "s", ".", " ", "F", "i", "r", "s",
    "t", " ", "i", "t", "e", "m", ":", " ">>

\* Table with 
S_TableWith == <<"T", "a", "b", "l", "e", " ", "w", "i", "t", "h", " ">>

\*  rows
S_rows == <<" ", "r", "o", "w", "s">>

\* Image: 
S_ImagePrefix == <<"I", "m", "a", "g", "e", ":", " ">>

\* ...
S_ellipsis == <<".", ".", ".">>

(***************************************************************************)
(* JavaScript values and string built-ins.                                 *)
(***************************************************************************)
NULL == <<"null">>

\* JavaScript truthiness of a string-or-null value: null, undefined and ""
\* are falsy.
Truthy(v) == v # NULL /\ v # <<>>

Min(a, b) == IF a < b THEN a ELSE b

IsSpace(c) == c \in {" ", "\t", "\n"}

RECURSIVE TrimStart(_)
TrimStart(s) ==
    IF s = <<>> THEN <<>>
    ELSE IF IsSpace(Head(s)) THEN TrimStart(Tail(s)) ELSE s

RECURSIVE TrimEnd(_)
TrimEnd(s) ==
    IF s = <<>> THEN <<>>
    ELSE IF IsSpace(s[Len(s)]) THEN TrimEnd(SubSeq(s, 1, Len(s) - 1)) ELSE s

\* String.prototype.trim
Trim(s) == TrimEnd(TrimStart(s))

\* String.prototype.toLowerCase, on the letters the model's inputs use
LowerChar(c) ==
    CASE c = "A" -> "a" [] c = "B" -> "b" [] c = "C" -> "c" [] c = "D" -> "d"
      [] c = "E" -> "e" [] c = "G" -> "g" [] c = "H" -> "h" [] c = "I" -> "i"
      [] c = "L" -> "l" [] c = "M" -> "m" [] c = "N" -> "n" [] c = "O" -> "o"
      [] c = "P" -> "p" [] c = "R" -> "r" [] c = "S" -> "s" [] c = "T" -> "t"
      [] c = "U" -> "u" [] c = "V" -> "v" [] c = "W" -> "w" [] c = "X" -> "x"
      [] c = "Y" -> "y"
      [] OTHER -> c

ToLowerCase(s) == [i \in 1..Len(s) |-> LowerChar(s[i])]

\* String.prototype.includes
Includes(s, sub) ==
    \E i \in 0..(Len(s) - Len(sub)) : SubSeq(s, i + 1, i + Len(sub)) = sub

\* String.prototype.substring(0, n)
Substring0(s, n) == SubSeq(s, 1, Min(n, Len(s)))

\* String.prototype.replace(/c/g, rep): every occurrence of the character c
\* is replaced by the string rep
RECURSIVE ReplaceAll(_, _, _)
ReplaceAll(s, c, rep) ==
    IF s = <<>> THEN <<>>
    ELSE (IF Head(s) = c THEN rep ELSE <<Head(s)>>) \o ReplaceAll(Tail(s), c, rep)

\* String.prototype.split(" ")[0]: the text before the first space
RECURSIVE SplitFirst(_)
SplitFirst(s) ==
    IF s = <<>> \/ Head(s) = " " THEN <<>>
    ELSE <<Head(s)>> \o SplitFirst(Tail(s))

\* Record<string, string> lookup: a missing key reads as undefined
Get(attributes, k) == IF k \in DOMAIN attributes THEN attributes[k] ELSE NULL

(***************************************************************************)
(* Role Classifier, Name/Label Resolver, Locator Synthesizer.              *)
(***************************************************************************)
\* inferRole without the "submit" case of the input switch
inferRoleNoSubmitCase(tagName, attributes) ==
    IF Truthy(Get(attributes, "role")) THEN Get(attributes, "role")
    ELSE LET tag == ToLowerCase(tagName)
             type == Get(attributes, "type")
         IN  CASE tag = S_button -> S_button
               [] tag = S_a -> S_link
               [] tag = S_input ->
                    (CASE type = S_checkbox -> S_checkbox
                       [] type = S_radio -> S_radio
                       [] OTHER -> S_textbox)
               [] tag = S_select -> S_combobox
               [] tag = S_textarea -> S_textbox
               [] OTHER -> S_generic

\* inferRole(handle, tagName, attributes)
inferRole(tagName, attributes) ==
    IF Truthy(Get(attributes, "role")) THEN Get(attributes, "role")
    ELSE LET tag == ToLowerCase(tagName)
             type == Get(attributes, "type")
         IN  CASE tag = S_button -> S_button
               [] tag = S_a -> S_link
               [] tag = S_input ->
                    (CASE type \in {S_text, S_email, S_password, S_search} -> S_textbox
                       [] type = S_checkbox -> S_checkbox
                       [] type = S_radio -> S_radio
                       [] type = S_submit -> S_button
                       [] OTHER -> S_textbox)
               [] tag = S_select -> S_combobox
               [] tag = S_textarea -> S_textbox
               [] OTHER -> S_generic

\* getElementName trying the name attribute before the text content
getElementNameNameFirst(attributes, textContent) ==
    IF Truthy(Get(attributes, "aria-label")) THEN Get(attributes, "aria-label")
    ELSE IF Truthy(Get(attributes, "data-testid")) THEN Get(attributes, "data-testid")
    ELSE IF Truthy(Get(attributes, "placeholder")) THEN Get(attributes, "placeholder")
    ELSE IF Truthy(Get(attributes, "name")) THEN Get(attributes, "name")
    ELSE IF Truthy(textContent) /\ Truthy(Trim(textContent)) THEN Trim(textContent)
    ELSE IF Truthy(Get(attributes, "id")) THEN Get(attributes, "id")
    ELSE IF Truthy(Get(attributes, "href")) THEN Get(attributes, "href")
    ELSE S_unnamed

\* getElementName(handle, attributes, textContent)
getElementName(attributes, textContent) ==
    IF Truthy(Get(attributes, "aria-label")) THEN Get(attributes, "aria-label")
    ELSE IF Truthy(Get(attributes, "data-testid")) THEN Get(attributes, "data-testid")
    ELSE IF Truthy(Get(attributes, "placeholder")) THEN Get(attributes, "placeholder")
    ELSE IF Truthy(textContent) /\ Truthy(Trim(textContent)) THEN Trim(textContent)
    ELSE IF Truthy(Get(attributes, "name")) THEN Get(attributes, "name")
    ELSE IF Truthy(Get(attributes, "id")) THEN Get(attributes, "id")
    ELSE IF Truthy(Get(attributes, "href")) THEN Get(attributes, "href")
    ELSE S_unnamed

\* generateLocator trying aria-label before data-testid
generateLocatorLabelFirst(role, name, attributes, tagName) ==
    IF Truthy(Get(attributes, "aria-label"))
      THEN L_label \o Get(attributes, "aria-label") \o L_end
    ELSE IF Truthy(Get(attributes, "data-testid"))
      THEN L_testid \o Get(attributes, "data-testid") \o L_end
    ELSE IF role = S_button /\ Truthy(name) /\ name # S_unnamed
      THEN L_roleButton \o name \o L_roleEnd
    ELSE IF role = S_link /\ Truthy(name) /\ name # S_unnamed
      THEN L_roleLink \o name \o L_roleEnd
    ELSE IF role = S_textbox /\ Truthy(Get(attributes, "placeholder"))
      THEN L_placeholder \o Get(attributes, "placeholder") \o L_end
    ELSE IF Truthy(Get(attributes, "name"))
      THEN L_nameAttr \o Get(attributes, "name") \o L_nameAttrEnd
    ELSE IF Truthy(Get(attributes, "id"))
      THEN L_idSel \o Get(attributes, "id") \o L_end
    ELSE L_locator \o ToLowerCase(tagName) \o L_end

\* generateLocator trying the role+name and placeholder rules before the
\* aria-label rule
generateLocatorRoleBeforeLabel(role, name, attributes, tagName) ==
    IF Truthy(Get(attributes, "data-testid"))
      THEN L_testid \o Get(attributes, "data-testid") \o L_end
    ELSE IF role = S_button /\ Truthy(name) /\ name # S_unnamed
      THEN L_roleButton \o name \o L_roleEnd
    ELSE IF role = S_link /\ Truthy(name) /\ name # S_unnamed
      THEN L_roleLink \o name \o L_roleEnd
    ELSE IF role = S_textbox /\ Truthy(Get(attributes, "placeholder"))
      THEN L_placeholder \o Get(attributes, "placeholder") \o L_end
    ELSE IF Truthy(Get(attributes, "aria-label"))
      THEN L_label \o Get(attributes, "aria-label") \o L_end
    ELSE IF Truthy(Get(attributes, "name"))
      THEN L_nameAttr \o Get(attributes, "name") \o L_nameAttrEnd
    ELSE IF Truthy(Get(attributes, "id"))
      THEN L_idSel \o Get(attributes, "id") \o L_end
    ELSE L_locator \o ToLowerCase(tagName) \o L_end

\* generateLocator(role, name, attributes, tagName)
generateLocator(role, name, attributes, tagName) ==
    IF Truthy(Get(attributes, "data-testid"))
      THEN L_testid \o Get(attributes, "data-testid") \o L_end
    ELSE IF Truthy(Get(attributes, "aria-label"))
      THEN L_label \o Get(attributes, "aria-label") \o L_end
    ELSE IF role = S_button /\ Truthy(name) /\ name # S_unnamed
      THEN L_roleButton \o name \o L_roleEnd
    ELSE IF role = S_link /\ Truthy(name) /\ name # S_unnamed
      THEN L_roleLink \o name \o L_roleEnd
    ELSE IF role = S_textbox /\ Truthy(Get(attributes, "placeholder"))
      THEN L_placeholder \o Get(attributes, "placeholder") \o L_end
    ELSE IF role = S_textbox /\ Truthy(Get(attributes, "aria-label"))
      THEN L_label \o Get(attributes, "aria-label") \o L_end
    ELSE IF Truthy(Get(attributes, "name"))
      THEN L_nameAttr \o Get(attributes, "name") \o L_nameAttrEnd
    ELSE IF Truthy(Get(attributes, "id"))
      THEN L_idSel \o Get(attributes, "id") \o L_end
    ELSE L_locator \o ToLowerCase(tagName) \o L_end

\* text.replace(/'/g, "\\'")
EscapeSingle(text) == ReplaceAll(text, "'", <<"\\", "'">>)

\* text.replace(/"/g, '\\"')
EscapeDouble(text) == ReplaceAll(text, "\"", <<"\\", "\"">>)

\* generateContentLocator trying the heading rule before the id rule
generateContentLocatorHeadingFirst(role, text, tagName, id, className) ==
    IF role = S_heading /\ Truthy(text)
      THEN L_roleHeading \o EscapeSingle(text) \o L_roleEnd
    ELSE IF Truthy(id) THEN L_idSel \o id \o L_end
    ELSE IF Truthy(text) /\ (role = S_paragraph \/ role = S_text)
      THEN LET shortText == IF Len(text) > 20 THEN Substring0(text, 20) ELSE text
           IN  L_text \o EscapeSingle(shortText) \o L_end
    ELSE IF role = S_image /\ Truthy(text)
      THEN L_alt \o EscapeSingle(text) \o L_end
    ELSE IF Truthy(className)
      THEN L_locator \o tagName \o L_dot \o SplitFirst(className) \o L_end
    ELSE IF Truthy(text) /\ Len(text) < 50
      THEN L_locator \o tagName \o L_hasText \o EscapeDouble(text) \o L_hasTextEnd
    ELSE L_locator \o tagName \o L_end

\* generateContentLocator(role, text, tagName, id, className)
generateContentLocator(role, text, tagName, id, className) ==
    IF Truthy(id) THEN L_idSel \o id \o L_end
    ELSE IF role = S_heading /\ Truthy(text)
      THEN L_roleHeading \o EscapeSingle(text) \o L_roleEnd
    ELSE IF Truthy(text) /\ (role = S_paragraph \/ role = S_text)
      THEN LET shortText == IF Len(text) > 20 THEN Substring0(text, 20) ELSE text
           IN  L_text \o EscapeSingle(shortText) \o L_end
    ELSE IF role = S_image /\ Truthy(text)
      THEN L_alt \o EscapeSingle(text) \o L_end
    ELSE IF Truthy(className)
      THEN L_locator \o tagName \o L_dot \o SplitFirst(className) \o L_end
    ELSE IF Truthy(text) /\ Len(text) < 50
      THEN L_locator \o tagName \o L_hasText \o EscapeDouble(text) \o L_hasTextEnd
    ELSE L_locator \o tagName \o L_end

(***************************************************************************)
(* DOM nodes as the headless-browser driver presents them: tagName(),      *)
(* getAttribute(name), textContent(), the li descendants, the caption and  *)
(* the tr descendants.  A detached node makes every driver call on its     *)
(* handle throw.                                                           *)
(***************************************************************************)
AttrNames == {"id", "class", "name", "type", "placeholder", "aria-label",
              "data-testid", "href", "role"}

DomAttrNames == AttrNames \cup {"alt", "src"}

NoElement == [null |-> TRUE]

\* page.$$(selector) of extractElements: does the node match the selector?
MatchesSelector(n, selector) ==
    LET tag == ToLowerCase(n.tagName)
    IN  CASE selector = "input" -> tag = S_input
          [] selector = "button" -> tag = S_button
          [] selector = "select" -> tag = S_select
          [] selector = "textarea" -> tag = S_textarea
          [] selector = "a[href]" -> tag = S_a /\ n.attrs["href"] # NULL
          [] selector = "[role=button]" -> n.attrs["role"] = S_button
          [] selector = "[role=textbox]" -> n.attrs["role"] = S_textbox
          [] selector = "[role=combobox]" -> n.attrs["role"] = S_combobox
          [] selector = "[role=checkbox]" -> n.attrs["role"] = S_checkbox
          [] selector = "[role=radio]" -> n.attrs["role"] = S_radio
          [] selector = "[data-testid]" -> n.attrs["data-testid"] # NULL
          [] selector = "[aria-label]" -> n.attrs["aria-label"] # NULL
          [] OTHER -> FALSE

\* the selector catalogue of extractElements, in its order
locators == <<"input", "button", "select", "textarea", "a[href]",
              "[role=button]", "[role=textbox]", "[role=combobox]",
              "[role=checkbox]", "[role=radio]", "[data-testid]",
              "[aria-label]">>

\* extractElementInfo(handle, page): null when any driver call throws
extractElementInfo(handle) ==
    IF handle.detached THEN NoElement
    ELSE LET tagName == handle.tagName
             attributes == [k \in {a \in AttrNames : Truthy(handle.attrs[a])}
                              |-> handle.attrs[k]]
             textContent == handle.textContent
             role == inferRole(tagName, attributes)
             nameOrLabel == getElementName(attributes, textContent)
             suggestedLocator ==
                 generateLocator(role, nameOrLabel, attributes, tagName)
         IN  [role |-> role,
              name_or_label |-> nameOrLabel,
              suggested_locator |-> suggestedLocator,
              text_content |-> IF Truthy(textContent) /\ Truthy(Trim(textContent))
                                 THEN Trim(textContent) ELSE <<>>,
              tag_name |-> ToLowerCase(tagName),
              attributes |-> attributes]

(***************************************************************************)
(* Content Extractor: the loop bodies of the five passes of                *)
(* extractContentElements, each on one node.                               *)
(***************************************************************************)
Digits == <<"0", "1", "2", "3", "4", "5", "6", "7", "8", "9">>

\* template interpolation of a number, ${items.length}
RECURSIVE NumStr(_)
NumStr(n) ==
    IF n < 10 THEN <<Digits[n + 1]>>
    ELSE NumStr(n \div 10) \o <<Digits[(n % 10) + 1]>>

\* (await x.textContent())?.trim()
TrimOpt(v) == IF v = NULL THEN NULL ELSE Trim(v)

\* v || ""
OrEmpty(v) == IF Truthy(v) THEN v ELSE <<>>

\* src?.split("/").pop(): the text after the last "/"
RECURSIVE LastSegment(_)
LastSegment(s) ==
    IF s = <<>> THEN <<>>
    ELSE IF s[Len(s)] = "/" THEN <<>>
    ELSE LastSegment(SubSeq(s, 1, Len(s) - 1)) \o <<s[Len(s)]>>

\* page.$$("h1, h2, h3, h4, h5, h6"), page.$$("p"), page.$$("ul, ol"),
\* page.$$("table"), page.$$("img")
MatchesContent(n, pass) ==
    LET tag == ToLowerCase(n.tagName)
    IN  CASE pass = "heading" -> tag \in {S_h1, S_h2, S_h3, S_h4, S_h5, S_h6}
          [] pass = "paragraph" -> tag = S_p
          [] pass = "list" -> tag \in {S_ul, S_ol}
          [] pass = "table" -> tag = S_table
          [] pass = "image" -> tag = S_img
          [] OTHER -> FALSE

headingElement(heading) ==
    IF heading.detached THEN NoElement
    ELSE LET tagName == ToLowerCase(heading.tagName)
             textContent == TrimOpt(heading.textContent)
             id == heading.attrs["id"]
             className == heading.attrs["class"]
         IN  IF Truthy(textContent)
               THEN [role |-> S_heading,
                     name_or_label |-> textContent,
                     suggested_locator |->
                         generateContentLocator(S_heading, textContent, tagName,
                                                id, className),
                     tag_name |-> tagName,
                     text_content |-> textContent,
                     attributes |-> [id |-> OrEmpty(id), class |-> OrEmpty(className)]]
               ELSE NoElement

\* the paragraph pass keeping texts of 10 characters too
paragraphElementFrom10(paragraph) ==
    IF paragraph.detached THEN NoElement
    ELSE LET textContent == TrimOpt(paragraph.textContent)
             id == paragraph.attrs["id"]
             className == paragraph.attrs["class"]
         IN  IF Truthy(textContent) /\ Len(textContent) >= 10
               THEN LET preview == IF Len(textContent) > 50
                                     THEN Substring0(textContent, 50) \o S_ellipsis
                                     ELSE textContent
                    IN  [role |-> S_paragraph,
                         name_or_label |-> preview,
                         suggested_locator |->
                             generateContentLocator(S_paragraph, textContent, S_p,
                                                    id, className),
                         tag_name |-> S_p,
                         text_content |-> textContent,
                         attributes |-> [id |-> OrEmpty(id),
                                         class |-> OrEmpty(className)]]
               ELSE NoElement

paragraphElement(paragraph) ==
    IF paragraph.detached THEN NoElement
    ELSE LET textContent == TrimOpt(paragraph.textContent)
             id == paragraph.attrs["id"]
             className == paragraph.attrs["class"]
         IN  IF Truthy(textContent) /\ Len(textContent) > 10
               THEN LET preview == IF Len(textContent) > 50
                                     THEN Substring0(textContent, 50) \o S_ellipsis
                                     ELSE textContent
                    IN  [role |-> S_paragraph,
                         name_or_label |-> preview,
                         suggested_locator |->
                             generateContentLocator(S_paragraph, textContent, S_p,
                                                    id, className),
                         tag_name |-> S_p,
                         text_content |-> textContent,
                         attributes |-> [id |-> OrEmpty(id),
                                         class |-> OrEmpty(className)]]
               ELSE NoElement

\* the list pass seeding the locator with the text of the last item
listElementSeedsLastItem(list) ==
    IF list.detached THEN NoElement
    ELSE LET tagName == ToLowerCase(list.tagName)
             items == list.items
             id == list.attrs["id"]
             className == list.attrs["class"]
         IN  IF Len(items) > 0
               THEN LET firstItemText == OrEmpty(TrimOpt(items[Len(items)]))
                        listType == IF tagName = S_ul THEN S_unordered ELSE S_ordered
                    IN  [role |-> S_list,
                         name_or_label |->
                             listType \o S_listWith \o NumStr(Len(items)) \o S_items,
                         suggested_locator |->
                             generateContentLocator(S_list, firstItemText, tagName,
                                                    id, className),
                         tag_name |-> tagName,
                         text_content |->
                             S_ListWith \o NumStr(Len(items)) \o S_itemsFirst
                                 \o firstItemText,
                         attributes |-> [id |-> OrEmpty(id),
                                         class |-> OrEmpty(className),
                                         type |-> listType]]
               ELSE NoElement

listElement(list) ==
    IF list.detached THEN NoElement
    ELSE LET tagName == ToLowerCase(list.tagName)
             items == list.items
             id == list.attrs["id"]
             className == list.attrs["class"]
         IN  IF Len(items) > 0
               THEN LET firstItemText == OrEmpty(TrimOpt(items[1]))
                        listType == IF tagName = S_ul THEN S_unordered ELSE S_ordered
                    IN  [role |-> S_list,
                         name_or_label |->
                             listType \o S_listWith \o NumStr(Len(items)) \o S_items,
                         suggested_locator |->
                             generateContentLocator(S_list, firstItemText, tagName,
                                                    id, className),
                         tag_name |-> tagName,
                         text_content |->
                             S_ListWith \o NumStr(Len(items)) \o S_itemsFirst
                                 \o firstItemText,
                         attributes |-> [id |-> OrEmpty(id),
                                         class |-> OrEmpty(className),
                                         type |-> listType]]
               ELSE NoElement

tableElement(table) ==
    IF table.detached THEN NoElement
    ELSE LET caption == table.caption
             rows == table.rows
             id == table.attrs["id"]
             className == table.attrs["class"]
         IN  [role |-> S_table,
              name_or_label |-> IF Truthy(caption) THEN caption
                                ELSE S_TableWith \o NumStr(rows) \o S_rows,
              suggested_locator |->
                  generateContentLocator(S_table, OrEmpty(caption), S_table,
                                         id, className),
              tag_name |-> S_table,
              text_content |-> S_TableWith \o NumStr(rows) \o S_rows,
              attributes |-> [id |-> OrEmpty(id), class |-> OrEmpty(className)]]

imageElement(img) ==
    IF img.detached THEN NoElement
    ELSE LET alt == img.attrs["alt"]
             src == img.attrs["src"]
             id == img.attrs["id"]
             className == img.attrs["class"]
         IN  IF Truthy(alt) \/ Truthy(src)
               THEN [role |-> S_image,
                     name_or_label |-> IF Truthy(alt) THEN alt
                                       ELSE S_ImagePrefix \o LastSegment(src),
                     suggested_locator |->
                         generateContentLocator(S_image, OrEmpty(alt), S_img,
                                                id, className),
                     tag_name |-> S_img,
                     text_content |-> OrEmpty(alt),
                     attributes |-> [id |-> OrEmpty(id),
                                     class |-> OrEmpty(className),
                                     src |-> OrEmpty(src),
                                     alt |-> OrEmpty(alt)]]
               ELSE NoElement

\* the loop body of the pass
contentElement(n, pass) ==
    CASE pass = "heading" -> headingElement(n)
      [] pass = "paragraph" -> paragraphElement(n)
      [] pass = "list" -> listElement(n)
      [] pass = "table" -> tableElement(n)
      [] pass = "image" -> imageElement(n)

\* the five passes, in the order extractContentElements runs them
passes == <<"heading", "paragraph", "list", "table", "image">>

(***************************************************************************)
(* Element Extractor, Content Extractor, categorisation and Action         *)
(* Inferencer on one page.  A page is the sequence of its nodes in         *)
(* document order; page.$$ returns the matching nodes in that order.       *)
(***************************************************************************)
\* the handle loop given up at the first handle whose extraction fails
ElementsOfSelectorAborting(page, selector) ==
    LET handles == SelectSeq(page, LAMBDA n : MatchesSelector(n, selector))
        infos == [k \in 1..Len(handles) |-> extractElementInfo(handles[k])]
        good == {k \in 0..Len(infos) : \A j \in 1..k : infos[j] # NoElement}
        last == CHOOSE k \in good : \A j \in good : j <= k
    IN  SubSeq(infos, 1, last)

\* page.$$(selector) and the loop over the handles: the non-null results of
\* extractElementInfo, in handle order
ElementsOfSelector(page, selector) ==
    LET handles == SelectSeq(page, LAMBDA n : MatchesSelector(n, selector))
        infos == [k \in 1..Len(handles) |-> extractElementInfo(handles[k])]
    IN  SelectSeq(infos, LAMBDA e : e # NoElement)

\* the list `elements` of extractElements after the loop over the selectors
\* from the i-th selector on
RECURSIVE CandidateElements(_, _)
CandidateElements(page, i) ==
    IF i > Len(locators) THEN <<>>
    ELSE ElementsOfSelector(page, locators[i]) \o CandidateElements(page, i + 1)

\* self.findIndex((e) => e.suggested_locator === locator)
FindIndex(self, locator) ==
    CHOOSE i \in 1..Len(self) :
        /\ self[i].suggested_locator = locator
        /\ \A j \in 1..(i - 1) : self[j].suggested_locator # locator

\* the filter keeping the last element of each locator instead of the first
UniqueElementsKeepLast(elements) ==
    LET F[i \in 0..Len(elements)] ==
            IF i = 0 THEN <<>>
            ELSE IF \A j \in (i + 1)..Len(elements) :
                       elements[j].suggested_locator # elements[i].suggested_locator
                   THEN Append(F[i - 1], elements[i])
                   ELSE F[i - 1]
    IN  F[Len(elements)]

\* elements.filter((element, index, self) => index === self.findIndex(...))
UniqueElements(elements) ==
    LET F[i \in 0..Len(elements)] ==
            IF i = 0 THEN <<>>
            ELSE IF i = FindIndex(elements, elements[i].suggested_locator)
                   THEN Append(F[i - 1], elements[i])
                   ELSE F[i - 1]
    IN  F[Len(elements)]

\* extractElements(page)
extractElements(page) == UniqueElements(CandidateElements(page, 1))

\* one pass of extractContentElements
ElementsOfPass(page, pass) ==
    LET matched == SelectSeq(page, LAMBDA n : MatchesContent(n, pass))
        infos == [k \in 1..Len(matched) |-> contentElement(matched[k], pass)]
    IN  SelectSeq(infos, LAMBDA e : e # NoElement)

\* extractContentElements(page)
extractContentElements(page) ==
    ElementsOfPass(page, "heading") \o ElementsOfPass(page, "paragraph")
        \o ElementsOfPass(page, "list") \o ElementsOfPass(page, "table")
        \o ElementsOfPass(page, "image")

S_listbox == <<"l", "i", "s", "t", "b", "o", "x">>
S_switch == <<"s", "w", "i", "t", "c", "h">>
S_navigation == <<"n", "a", "v", "i", "g", "a", "t", "i", "o", "n">>

\* the formFields filter looking at the role only
IsFormFieldByRole(el) ==
    el.role \in {S_textbox, S_input, S_textarea, S_combobox, S_listbox}

\* the formFields filter of analyzePage
IsFormField(el) ==
    \/ el.role \in {S_textbox, S_input, S_textarea, S_combobox, S_listbox}
    \/ ToLowerCase(el.tag_name) \in {S_input, S_textarea, S_select}

\* the interactiveElements filter of analyzePage
IsInteractive(el) ==
    \/ el.role \in {S_button, S_link, S_checkbox, S_radio, S_switch}
    \/ ToLowerCase(el.tag_name) \in {S_button, S_a}

\* the navigationElements filter of analyzePage
IsNavigation(el) ==
    \/ el.role = S_link
    \/ (ToLowerCase(el.tag_name) = S_a /\ Truthy(Get(el.attributes, "href")))
    \/ el.role = S_navigation

K_submit == <<"s", "u", "b", "m", "i", "t">>
K_signIn == <<"s", "i", "g", "n", " ", "i", "n">>
K_login == <<"l", "o", "g", "i", "n">>
K_save == <<"s", "a", "v", "e">>

\* the submitButtons filter of inferActions
IsSubmitNamed(el) ==
    LET name == ToLowerCase(el.name_or_label)
    IN  \/ Includes(name, K_submit)
        \/ Includes(name, K_signIn)
        \/ Includes(name, K_login)
        \/ Includes(name, K_save)

\* inferActions testing the links before the submit buttons
inferActionsLinksFirst(formFields, interactiveElements, contentElements) ==
    LET submitButtons == SelectSeq(interactiveElements, IsSubmitNamed)
        links == SelectSeq(interactiveElements, LAMBDA el : el.role = S_link)
        buttons ==
            SelectSeq(interactiveElements,
                      LAMBDA el :
                          /\ el.role = S_button
                          /\ ~\E i \in 1..Len(submitButtons) :
                                submitButtons[i].suggested_locator
                                    = el.suggested_locator)
        OfRole(role) == SelectSeq(contentElements, LAMBDA el : el.role = role)
        Push(cond, label) == IF cond THEN <<label>> ELSE <<>>
    IN  Push(Len(formFields) > 0, "fill form fields")
          \o Push(Len(links) > 0, "navigate via links")
          \o Push(Len(submitButtons) > 0, "submit form")
          \o Push(Len(buttons) > 0, "interact with buttons")
          \o Push(Len(OfRole(S_heading)) > 0, "verify page headings")
          \o Push(Len(OfRole(S_paragraph)) > 0, "verify text content")
          \o Push(Len(OfRole(S_list)) > 0, "verify list content")
          \o Push(Len(OfRole(S_table)) > 0, "verify table data")
          \o Push(Len(OfRole(S_image)) > 0, "verify images")

\* inferActions counting every button, submit-triggering or not
inferActionsAllButtons(formFields, interactiveElements, contentElements) ==
    LET submitButtons == SelectSeq(interactiveElements, IsSubmitNamed)
        links == SelectSeq(interactiveElements, LAMBDA el : el.role = S_link)
        buttons == SelectSeq(interactiveElements, LAMBDA el : el.role = S_button)
        OfRole(role) == SelectSeq(contentElements, LAMBDA el : el.role = role)
        Push(cond, label) == IF cond THEN <<label>> ELSE <<>>
    IN  Push(Len(formFields) > 0, "fill form fields")
          \o Push(Len(submitButtons) > 0, "submit form")
          \o Push(Len(links) > 0, "navigate via links")
          \o Push(Len(buttons) > 0, "interact with buttons")
          \o Push(Len(OfRole(S_heading)) > 0, "verify page headings")
          \o Push(Len(OfRole(S_paragraph)) > 0, "verify text content")
          \o Push(Len(OfRole(S_list)) > 0, "verify list content")
          \o Push(Len(OfRole(S_table)) > 0, "verify table data")
          \o Push(Len(OfRole(S_image)) > 0, "verify images")

\* inferActions taking an empty form_fields list for a non-empty one
inferActionsOnEmpty(formFields, interactiveElements, contentElements) ==
    LET submitButtons == SelectSeq(interactiveElements, IsSubmitNamed)
        links == SelectSeq(interactiveElements, LAMBDA el : el.role = S_link)
        buttons ==
            SelectSeq(interactiveElements,
                      LAMBDA el :
                          /\ el.role = S_button
                          /\ ~\E i \in 1..Len(submitButtons) :
                                submitButtons[i].suggested_locator
                                    = el.suggested_locator)
        OfRole(role) == SelectSeq(contentElements, LAMBDA el : el.role = role)
        Push(cond, label) == IF cond THEN <<label>> ELSE <<>>
    IN  Push(Len(formFields) >= 0, "fill form fields")
          \o Push(Len(submitButtons) > 0, "submit form")
          \o Push(Len(links) > 0, "navigate via links")
          \o Push(Len(buttons) > 0, "interact with buttons")
          \o Push(Len(OfRole(S_heading)) > 0, "verify page headings")
          \o Push(Len(OfRole(S_paragraph)) > 0, "verify text content")
          \o Push(Len(OfRole(S_list)) > 0, "verify list content")
          \o Push(Len(OfRole(S_table)) > 0, "verify table data")
          \o Push(Len(OfRole(S_image)) > 0, "verify images")

\* inferActions(formFields, interactiveElements, contentElements)
inferActions(formFields, interactiveElements, contentElements) ==
    LET submitButtons == SelectSeq(interactiveElements, IsSubmitNamed)
        links == SelectSeq(interactiveElements, LAMBDA el : el.role = S_link)
        buttons ==
            SelectSeq(interactiveElements,
                      LAMBDA el :
                          /\ el.role = S_button
                          /\ ~\E i \in 1..Len(submitButtons) :
                                submitButtons[i].suggested_locator
                                    = el.suggested_locator)
        OfRole(role) == SelectSeq(contentElements, LAMBDA el : el.role = role)
        Push(cond, label) == IF cond THEN <<label>> ELSE <<>>
    IN  Push(Len(formFields) > 0, "fill form fields")
          \o Push(Len(submitButtons) > 0, "submit form")
          \o Push(Len(links) > 0, "navigate via links")
          \o Push(Len(buttons) > 0, "interact with buttons")
          \o Push(Len(OfRole(S_heading)) > 0, "verify page headings")
          \o Push(Len(OfRole(S_paragraph)) > 0, "verify text content")
          \o Push(Len(OfRole(S_list)) > 0, "verify list content")
          \o Push(Len(OfRole(S_table)) > 0, "verify table data")
          \o Push(Len(OfRole(S_image)) > 0, "verify images")

(***************************************************************************)
(* Structure Summarizer: getStructure of getPageStructure.  An element of  *)
(* the document is a record of its tagName, id, className, textContent and *)
(* the sequence of its child elements.                                     *)
(***************************************************************************)
S_main == <<"m", "a", "i", "n">>
S_section == <<"s", "e", "c", "t", "i", "o", "n">>
S_article == <<"a", "r", "t", "i", "c", "l", "e">>
S_nav == <<"n", "a", "v">>
S_header == <<"h", "e", "a", "d", "e", "r">>
S_footer == <<"f", "o", "o", "t", "e", "r">>
S_form == <<"f", "o", "r", "m">>
S_div == <<"d", "i", "v">>

\* the tags whose children getStructure lists
StructuralTags ==
    {S_main, S_section, S_article, S_nav, S_header, S_footer, S_form, S_div}

\* "  ".repeat(depth)
Indent(depth) == [i \in 1..(2 * depth) |-> " "]

\* getStructure without the depth limit and without the limit on children
RECURSIVE getStructureUnbounded(_, _)
getStructureUnbounded(element, depth) ==
    LET tag == ToLowerCase(element.tagName)
        id == IF Truthy(element.id) THEN <<"#">> \o element.id ELSE <<>>
        classes == IF Truthy(element.className)
                     THEN <<".">> \o ReplaceAll(element.className, " ", <<".">>)
                     ELSE <<>>
        text == IF element.textContent = NULL THEN <<>>
                ELSE Substring0(Trim(element.textContent), 30)
        line == Indent(depth) \o tag \o id \o classes
                  \o (IF Truthy(text) /\ depth < 2
                        THEN <<" ", "\"">> \o text \o <<"\"">> ELSE <<>>)
                  \o <<"\n">>
        kids == element.children
        Sub[i \in 0..Len(kids)] ==
            IF i = 0 THEN <<>>
            ELSE Sub[i - 1] \o getStructureUnbounded(kids[i], depth + 1)
    IN  line \o (IF tag \in StructuralTags THEN Sub[Len(kids)] ELSE <<>>)

\* getStructure(element, depth): the outline of element and of what is
\* listed below it, every line ended by "\n"
RECURSIVE getStructure(_, _)
getStructure(element, depth) ==
    IF depth > 3 THEN <<>>
    ELSE
    LET tag == ToLowerCase(element.tagName)
        id == IF Truthy(element.id) THEN <<"#">> \o element.id ELSE <<>>
        classes == IF Truthy(element.className)
                     THEN <<".">> \o ReplaceAll(element.className, " ", <<".">>)
                     ELSE <<>>
        text == IF element.textContent = NULL THEN <<>>
                ELSE Substring0(Trim(element.textContent), 30)
        line == Indent(depth) \o tag \o id \o classes
                  \o (IF Truthy(text) /\ depth < 2
                        THEN <<" ", "\"">> \o text \o <<"\"">> ELSE <<>>)
                  \o <<"\n">>
        kids == SubSeq(element.children, 1, Min(5, Len(element.children)))
        Sub[i \in 0..Len(kids)] ==
            IF i = 0 THEN <<>>
            ELSE Sub[i - 1] \o getStructure(kids[i], depth + 1)
    IN  line \o (IF tag \in StructuralTags THEN Sub[Len(kids)] ELSE <<>>)

(***************************************************************************)
(* State.                                                                  *)
(*   browser        the analyzer's field this.browser: 0 is null, n > 0 is *)
(*                  the n-th browser launched                              *)
(*   browsers       the browsers launched so far: state, the number of     *)
(*                  close() calls made on the handle and how many of them  *)
(*                  still await browser.close()                            *)
(*   calls          the analyzePage calls: position, page session,         *)
(*                  navigation attempts, completed analysis steps, pending *)
(*                  error, what the caller received                        *)
(*   closesLeft     the close() calls the analyzer's owner has yet to make *)
(*   node, out, via one driver handle, the PageElement extracted from it   *)
(*                  and the routine that extracted it; for the structure   *)
(*                  summary: document.body and the summary text            *)
(*   dom            the nodes of the page under analysis, document order   *)
(*   stage          position of the analysis of dom                        *)
(*   elements       the candidate list of extractElements before dedup     *)
(*   keyElements, contentElements, formFields, interactiveElements,        *)
(*   navigationElements, highLevelActions: the fields of the PageAnalysis  *)
(*   userStory, completion, feature, genPc: one generateScenarios call     *)
(***************************************************************************)
VARIABLES browser, browsers, calls, closesLeft,
          node, out, via,
          dom, stage, elements, keyElements, contentElements,
          formFields, interactiveElements, navigationElements,
          highLevelActions,
          userStory, completion, feature, genPc

lifecycleVars == <<browser, browsers, calls, closesLeft>>
elementVars == <<node, out, via>>
pageVars == <<dom, stage, elements, keyElements, contentElements,
              formFields, interactiveElements, navigationElements,
              highLevelActions>>
scenarioVars == <<userStory, completion, feature, genPc>>
vars == <<lifecycleVars, elementVars, pageVars, scenarioVars>>

Idle == [idle |-> TRUE]

(***************************************************************************)
(* Inputs of the single-node extraction: every combination of the values   *)
(* below.                                                                  *)
(***************************************************************************)
T_INPUT == <<"I", "N", "P", "U", "T">>
T_Select == <<"S", "e", "l", "e", "c", "t">>
T_TEXTAREA == <<"T", "E", "X", "T", "A", "R", "E", "A">>
T_A == <<"A">>
T_DIV == <<"D", "I", "V">>

TagNames == {T_INPUT, S_button, T_A, T_Select, T_TEXTAREA, T_DIV}

V_date == <<"d", "a", "t", "e">>
V_id == <<"i", "d", "1">>
V_name == <<"q">>
V_placeholder == <<"E", "m", "a", "i", "l">>
V_label == <<"O", "'", "k">>
V_testid == <<"t", "-", "1">>
V_href == <<"/", "h">>
V_textOk == <<" ", "O", "k", " ">>

AttrValues(a) ==
    CASE a = "id" -> {NULL, V_id}
      [] a = "class" -> {NULL}
      [] a = "name" -> {NULL, V_name}
      [] a = "type" -> {NULL, S_text, S_email, S_password, S_search, S_checkbox,
                        S_radio, S_submit, V_date}
      [] a = "placeholder" -> {NULL, V_placeholder}
      [] a = "aria-label" -> {NULL, <<>>, V_label}
      [] a = "data-testid" -> {NULL, V_testid}
      [] a = "href" -> {NULL, V_href}
      [] a = "role" -> {NULL, <<>>, S_button, S_textbox, S_switch}
      [] OTHER -> {NULL}

TextContents == {NULL, <<" ">>, V_textOk, S_unnamed}

MkAttrs(id, class, name, type, placeholder, label, testid, href, role, alt, src) ==
    [k \in DomAttrNames |->
        CASE k = "id" -> id
          [] k = "class" -> class
          [] k = "name" -> name
          [] k = "type" -> type
          [] k = "placeholder" -> placeholder
          [] k = "aria-label" -> label
          [] k = "data-testid" -> testid
          [] k = "href" -> href
          [] k = "role" -> role
          [] k = "alt" -> alt
          [] k = "src" -> src]

InteractiveHandles ==
    {[tagName |-> t,
      attrs |-> MkAttrs(id, NULL, name, type, ph, label, testid, href, role,
                        NULL, NULL),
      textContent |-> x,
      items |-> <<>>, caption |-> NULL, rows |-> 0,
      detached |-> FALSE] :
        t \in TagNames, id \in AttrValues("id"), name \in AttrValues("name"),
        type \in AttrValues("type"), ph \in AttrValues("placeholder"),
        label \in AttrValues("aria-label"), testid \in AttrValues("data-testid"),
        href \in AttrValues("href"), role \in AttrValues("role"),
        x \in TextContents}

Rep(c, n) == [i \in 1..n |-> c]

T_H1 == <<"H", "1">>
T_H3 == <<"H", "3">>
T_P == <<"P">>
T_UL == <<"U", "L">>
T_OL == <<"O", "L">>
T_TABLE == <<"T", "A", "B", "L", "E">>
T_IMG == <<"I", "M", "G">>

ContentTagNames == {T_H1, T_H3, T_P, T_UL, T_OL, T_TABLE, T_IMG}

X_quotes == <<"H", "i", "'", "\"">>
X_10 == Rep("x", 10)
X_11 == <<" ">> \o Rep("x", 11) \o <<" ">>
X_25 == Rep("y", 19) \o <<"'">> \o Rep("z", 5)
X_50 == Rep("w", 50)
X_51 == Rep("w", 51)

ContentTexts == {NULL, <<" ">>, X_quotes, X_10, X_11, X_25, X_50, X_51}

V_class == <<"c", "a", "r", "d", " ", "b", "i", "g">>
V_item == <<" ", "o", "n", "e", " ">>
V_caption == <<"C", "a", "p">>
V_alt == <<"A", "'", "l", "t">>
V_src == <<"a", "/", "b", ".", "p", "n", "g">>

ItemLists == {<<>>, <<V_item>>, <<X_quotes, V_item, NULL>>, <<NULL, V_item>>,
              <<X_51, V_item>>}

RowCounts == {0, 2, 12}

ContentNodes ==
    {[tagName |-> t,
      attrs |-> MkAttrs(id, class, NULL, NULL, NULL, NULL, NULL, NULL, NULL,
                        alt, src),
      textContent |-> x,
      items |-> items, caption |-> caption, rows |-> rows,
      detached |-> FALSE] :
        t \in ContentTagNames, id \in {NULL, V_id}, class \in {NULL, V_class},
        alt \in {NULL, <<>>, V_alt}, src \in {NULL, V_src},
        x \in ContentTexts, items \in ItemLists, caption \in {NULL, V_caption},
        rows \in RowCounts}

\* handles on which every driver call throws
DetachedHandles ==
    {[n EXCEPT !.detached = TRUE] :
        n \in {m \in InteractiveHandles \cup ContentNodes :
                  /\ m.textContent = NULL
                  /\ \A k \in DomAttrNames \ {"id"} : m.attrs[k] = NULL
                  /\ m.items = <<>> /\ m.caption = NULL /\ m.rows = 0}}

(***************************************************************************)
(* Browser Session Manager and analyzePage: one analyzer instance, the     *)
(* analyzePage calls and the close() calls made on it.  Every await of the *)
(* code is a point where another call may run.  The calls on one analyzer  *)
(* differ only in their state, so they are kept as a multiset of states.   *)
(***************************************************************************)
NumCalls == 2
MaxCloses == 2

\* the awaited steps of analyzePage between page.goto and the return
AnalysisSteps ==
    <<"title", "extractElements", "extractContentElements", "getPageStructure">>

\* onClosing: the newPage of the call has just resolved on a handle whose
\* close() had already been started (kept until the call goes on to page.goto)
NewCall ==
    [pc |-> "idle", page |-> 0, pageOpen |-> FALSE, onClosing |-> FALSE,
     gotos |-> 0, steps |-> 0, error |-> "none", result |-> "none"]

\* the call in state r moves to state r2
Moved(r, r2) == (calls (-) SetToBag({r})) (+) SetToBag({r2})

\* the states of the calls
CallStates == BagToSet(calls)

LifecycleInit ==
    /\ browser = 0
    /\ browsers = <<>>
    /\ calls = [r \in {NewCall} |-> NumCalls]
    /\ closesLeft = MaxCloses

\* the parts of the state a specification does not use stay as they start
LifecycleUnused ==
    /\ browser = 0
    /\ browsers = <<>>
    /\ calls = EmptyBag
    /\ closesLeft = 0

ElementUnused == node = Idle /\ out = Idle /\ via = "unused"

ScenariosUnused ==
    /\ userStory = <<>>
    /\ completion = Idle
    /\ feature = Idle
    /\ genPc = "unused"

PageUnused ==
    /\ dom = <<>>
    /\ stage = "unused"
    /\ elements = <<>>
    /\ keyElements = <<>>
    /\ contentElements = <<>>
    /\ formFields = <<>>
    /\ interactiveElements = <<>>
    /\ navigationElements = <<>>
    /\ highLevelActions = <<>>

Init == LifecycleInit /\ ElementUnused /\ PageUnused /\ ScenariosUnused

\* analyzePage is called; initialize() tests this.browser and, when it is
\* null, starts chromium.launch
Initialize(r) ==
    /\ r.pc = "idle"
    /\ calls' = Moved(r, [r EXCEPT !.pc = IF browser = 0 THEN "launching"
                                          ELSE "initialized"])
    /\ UNCHANGED <<browser, browsers, closesLeft, elementVars,
                   scenarioVars, pageVars>>

\* chromium.launch resolves and its handle is stored in this.browser, or it
\* rejects and analyzePage rejects with it
Launch(r) ==
    /\ r.pc = "launching"
    /\ \/ /\ browsers' = Append(browsers,
                                [state |-> "open", closes |-> 0, pending |-> 0])
          /\ browser' = Len(browsers) + 1
          /\ calls' = Moved(r, [r EXCEPT !.pc = "initialized"])
       \/ /\ calls' = Moved(r, [r EXCEPT !.pc = "done",
                                         !.error = "LaunchError",
                                         !.result = "LaunchError"])
          /\ UNCHANGED <<browser, browsers>>
    /\ UNCHANGED <<closesLeft, elementVars, scenarioVars, pageVars>>

\* this.browser!.newPage(): on a null handle the call throws and on a closed
\* browser it rejects.  analyzePage does not test whether close() is under
\* way: on a browser that is still closing the driver may open the page
\* before the browser is gone, or reject.
NewPage(r) ==
    /\ r.pc = "initialized"
    /\ LET opened == [r EXCEPT !.pc = "goto",
                               !.page = browser,
                               !.pageOpen = TRUE,
                               !.onClosing = browsers[browser].state = "closing"]
           failed == [r EXCEPT !.pc = "done",
                               !.error = "NewPageError",
                               !.result = "NewPageError"]
       IN  IF browser # 0 /\ browsers[browser].state = "open"
             THEN calls' = Moved(r, opened)
             ELSE IF browser # 0 /\ browsers[browser].state = "closing"
                    THEN calls' \in {Moved(r, opened), Moved(r, failed)}
                    ELSE calls' = Moved(r, failed)
    /\ UNCHANGED <<browser, browsers, closesLeft, elementVars,
                   scenarioVars, pageVars>>

\* page.goto retried once after a failure
GotoRetrying(r) ==
    /\ r.pc = "goto"
    /\ \/ /\ r.pageOpen
          /\ calls' = Moved(r, [r EXCEPT !.pc = AnalysisSteps[1],
                                         !.gotos = @ + 1,
                                         !.onClosing = FALSE])
       \/ calls' = Moved(r, [r EXCEPT !.pc = IF r.gotos = 0 THEN "goto"
                                             ELSE "finally",
                                      !.gotos = @ + 1,
                                      !.onClosing = FALSE,
                                      !.error = IF r.gotos = 0 THEN "none"
                                                ELSE "NavigationError"])
    /\ UNCHANGED <<browser, browsers, closesLeft, elementVars,
                   scenarioVars, pageVars>>

\* page.goto(url): it resolves, or it rejects and control passes to the
\* finally block; on a page that is no longer open it can only reject
Goto(r) ==
    /\ r.pc = "goto"
    /\ \/ /\ r.pageOpen
          /\ calls' = Moved(r, [r EXCEPT !.pc = AnalysisSteps[1],
                                         !.gotos = @ + 1,
                                         !.onClosing = FALSE])
       \/ calls' = Moved(r, [r EXCEPT !.pc = "finally",
                                      !.gotos = @ + 1,
                                      !.onClosing = FALSE,
                                      !.error = "NavigationError"])
    /\ UNCHANGED <<browser, browsers, closesLeft, elementVars,
                   scenarioVars, pageVars>>

\* page.title(), extractElements, extractContentElements, getPageStructure:
\* each resolves, or rejects and control passes to the finally block
AnalysisStep(r) ==
    /\ \E i \in 1..Len(AnalysisSteps) :
          /\ r.pc = AnalysisSteps[i]
          /\ \/ /\ r.pageOpen
                /\ calls' = Moved(r, [r EXCEPT
                                         !.pc = IF i < Len(AnalysisSteps)
                                                  THEN AnalysisSteps[i + 1]
                                                  ELSE "finally",
                                         !.steps = @ + 1])
             \/ calls' = Moved(r, [r EXCEPT !.pc = "finally",
                                            !.error = "AnalysisError"])
    /\ UNCHANGED <<browser, browsers, closesLeft, elementVars,
                   scenarioVars, pageVars>>

\* page.close() on the normal return only, without the finally block
FinallyOnReturnOnly(r) ==
    /\ r.pc = "finally"
    /\ calls' = Moved(r, [r EXCEPT !.pc = "done",
                                   !.pageOpen = IF r.error = "none" THEN FALSE ELSE @,
                                   !.result = IF r.error = "none"
                                                THEN "PageAnalysis"
                                                ELSE r.error])
    /\ UNCHANGED <<browser, browsers, closesLeft, elementVars,
                   scenarioVars, pageVars>>

\* finally { await page.close() }, then the PageAnalysis is returned or the
\* pending error is rethrown
Finally(r) ==
    /\ r.pc = "finally"
    /\ calls' = Moved(r, [r EXCEPT !.pc = "done",
                                   !.pageOpen = FALSE,
                                   !.result = IF r.error = "none"
                                                THEN "PageAnalysis"
                                                ELSE r.error])
    /\ UNCHANGED <<browser, browsers, closesLeft, elementVars,
                   scenarioVars, pageVars>>

AnalyzePage(r) ==
    \/ Initialize(r)
    \/ Launch(r)
    \/ NewPage(r)
    \/ Goto(r)
    \/ AnalysisStep(r)
    \/ Finally(r)

\* close() is called: with no handle it returns, otherwise it starts
\* this.browser.close() and awaits it
CloseStart ==
    /\ closesLeft > 0
    /\ closesLeft' = closesLeft - 1
    /\ IF browser = 0
         THEN UNCHANGED browsers
         ELSE browsers' = [browsers EXCEPT
                              ![browser].closes = @ + 1,
                              ![browser].pending = @ + 1,
                              ![browser].state =
                                  IF @ = "open" THEN "closing" ELSE @]
    /\ UNCHANGED <<browser, calls, elementVars, scenarioVars, pageVars>>

\* the calls after every page of browser b was closed with the browser
RECURSIVE PagesClosed(_, _, _)
PagesClosed(B, S, b) ==
    IF S = {} THEN B
    ELSE LET r == CHOOSE x \in S : TRUE
             n == CopiesIn(r, B)
         IN  IF r.page = b /\ r.pageOpen
               THEN PagesClosed((B (-) [x \in {r} |-> n])
                                   (+) [x \in {[r EXCEPT !.pageOpen = FALSE]} |-> n],
                                S \ {r}, b)
               ELSE PagesClosed(B, S \ {r}, b)

\* close() without the assignment this.browser = null
CloseDoneKeepsHandle(b) ==
    /\ browsers[b].pending > 0
    /\ browsers' = [browsers EXCEPT ![b].pending = @ - 1, ![b].state = "closed"]
    /\ calls' = PagesClosed(calls, CallStates, b)
    /\ UNCHANGED <<browser, closesLeft, elementVars, scenarioVars, pageVars>>

\* a pending browser.close() of browser b resolves: the browser and its
\* pages are closed, and close() continues with this.browser = null
CloseDone(b) ==
    /\ browsers[b].pending > 0
    /\ browsers' = [browsers EXCEPT ![b].pending = @ - 1, ![b].state = "closed"]
    /\ calls' = PagesClosed(calls, CallStates, b)
    /\ browser' = 0
    /\ UNCHANGED <<closesLeft, elementVars, scenarioVars, pageVars>>

Next ==
    \/ \E r \in CallStates : Initialize(r)
    \/ \E r \in CallStates : Launch(r)
    \/ \E r \in CallStates : NewPage(r)
    \/ \E r \in CallStates : Goto(r)
    \/ \E r \in CallStates : AnalysisStep(r)
    \/ \E r \in CallStates : Finally(r)
    \/ CloseStart
    \/ \E b \in 1..Len(browsers) : CloseDone(b)

Spec == Init /\ [][Next]_vars

(***************************************************************************)
(* Sequential histories: the caller awaits every analyzePage and close()   *)
(* call before it makes the next one, so a call starts only at a quiescent *)
(* point.                                                                  *)
(***************************************************************************)
\* no analyzePage call and no close() call is under way
Quiescent ==
    /\ \A r \in CallStates : r.pc \in {"idle", "done"}
    /\ \A b \in 1..Len(browsers) : browsers[b].pending = 0

NextSequential ==
    \/ Quiescent /\ \E r \in CallStates : Initialize(r)
    \/ \E r \in CallStates : Launch(r)
    \/ \E r \in CallStates : NewPage(r)
    \/ \E r \in CallStates : Goto(r)
    \/ \E r \in CallStates : AnalysisStep(r)
    \/ \E r \in CallStates : Finally(r)
    \/ Quiescent /\ CloseStart
    \/ \E b \in 1..Len(browsers) : CloseDone(b)

SpecSequential == Init /\ [][NextSequential]_vars

(***************************************************************************)
(* Extraction of a single node: every handle of the input sets, by         *)
(* extractElementInfo or by the content pass that selects it.              *)
(***************************************************************************)
InitElement ==
    /\ node \in InteractiveHandles \cup ContentNodes \cup DetachedHandles
    /\ out = Idle
    /\ via = "none"
    /\ LifecycleUnused
    /\ PageUnused
    /\ ScenariosUnused

\* one iteration of the handle loop of extractElements
ExtractElementInfo ==
    /\ via = "none"
    /\ \E i \in 1..Len(locators) : MatchesSelector(node, locators[i])
    /\ out' = extractElementInfo(node)
    /\ via' = "extractElementInfo"
    /\ UNCHANGED <<node, lifecycleVars, pageVars, scenarioVars>>

\* one iteration of the node loop of a pass of extractContentElements
ExtractContentElement ==
    /\ via = "none"
    /\ \E p \in 1..Len(passes) :
          /\ MatchesContent(node, passes[p])
          /\ out' = contentElement(node, passes[p])
          /\ via' = passes[p]
    /\ UNCHANGED <<node, lifecycleVars, pageVars, scenarioVars>>

NextElement == ExtractElementInfo \/ ExtractContentElement

SpecElement == InitElement /\ [][NextElement]_vars

(***************************************************************************)
(* Analysis of one page: the body of analyzePage between page.goto and the *)
(* return, on every page of at most MaxNodes nodes of PageNodes.           *)
(***************************************************************************)
MaxNodes == 3

Node(tagName, attrs, textContent, items, caption, rows, detached) ==
    [tagName |-> tagName, attrs |-> attrs, textContent |-> textContent,
     items |-> items, caption |-> caption, rows |-> rows, detached |-> detached]

\* an element node without list items, caption or rows
Plain(tagName, attrs, textContent) ==
    Node(tagName, attrs, textContent, <<>>, NULL, 0, FALSE)

NoAttrs ==
    MkAttrs(NULL, NULL, NULL, NULL, NULL, NULL, NULL, NULL, NULL, NULL, NULL)

With(attrs, k, v) == [attrs EXCEPT ![k] = v]

\* <input type="text" data-testid="t-1" aria-label="O'k">
N_input ==
    Plain(T_INPUT,
          With(With(With(NoAttrs, "type", S_text), "data-testid", V_testid),
               "aria-label", V_label),
          <<>>)
\* <select name="q">
N_select == Plain(T_Select, With(NoAttrs, "name", V_name), <<>>)
\* <div role="button"> Ok </div>
N_divButton == Plain(T_DIV, With(NoAttrs, "role", S_button), V_textOk)
\* <button id="id1"> Ok </button>
N_button == Plain(S_button, With(NoAttrs, "id", V_id), V_textOk)
\* <a href="/h"> Ok </a>
N_link == Plain(T_A, With(NoAttrs, "href", V_href), V_textOk)
\* <h1 data-testid="t-1">Hi'"</h1>
N_heading == Plain(T_H1, With(NoAttrs, "data-testid", V_testid), X_quotes)
\* <p> xxxxxxxxxxx </p>
N_paragraph == Plain(T_P, NoAttrs, X_11)
\* <ul><li> one </li></ul>
N_list == Node(T_UL, NoAttrs, V_item, <<V_item>>, NULL, 0, FALSE)
\* <table> with two rows and no caption
N_table == Node(T_TABLE, NoAttrs, <<>>, <<>>, NULL, 2, FALSE)
\* <img alt="A'lt" aria-label="O'k">
N_image ==
    Plain(T_IMG, With(With(NoAttrs, "alt", V_alt), "aria-label", V_label), <<>>)
\* an <input id="id1"> whose handle throws
N_detached ==
    Node(T_INPUT, With(NoAttrs, "id", V_id), NULL, <<>>, NULL, 0, TRUE)
\* <div></div>
N_div == Plain(T_DIV, NoAttrs, <<>>)

PageNodes ==
    {N_input, N_select, N_divButton, N_button, N_link, N_heading, N_paragraph,
     N_list, N_table, N_image, N_detached, N_div}

SeqsUpTo(S, n) == UNION {[1..k -> S] : k \in 0..n}

PageInit ==
    /\ dom \in SeqsUpTo(PageNodes, MaxNodes)
    /\ stage = "start"
    /\ elements = <<>>
    /\ keyElements = <<>>
    /\ contentElements = <<>>
    /\ formFields = <<>>
    /\ interactiveElements = <<>>
    /\ navigationElements = <<>>
    /\ highLevelActions = <<>>

InitPage == PageInit /\ LifecycleUnused /\ ElementUnused /\ ScenariosUnused

\* const elements = await this.extractElements(page)
ExtractElements ==
    /\ stage = "start"
    /\ elements' = CandidateElements(dom, 1)
    /\ keyElements' = extractElements(dom)
    /\ stage' = "elements"
    /\ UNCHANGED <<dom, contentElements, formFields, interactiveElements,
                   navigationElements, highLevelActions, lifecycleVars,
                   elementVars, scenarioVars>>

\* const contentElements = await this.extractContentElements(page)
ExtractContentElements ==
    /\ stage = "elements"
    /\ contentElements' = extractContentElements(dom)
    /\ stage' = "content"
    /\ UNCHANGED <<dom, elements, keyElements, formFields, interactiveElements,
                   navigationElements, highLevelActions, lifecycleVars,
                   elementVars, scenarioVars>>

\* the three filters of analyzePage
Categorize ==
    /\ stage = "content"
    /\ formFields' = SelectSeq(keyElements, IsFormField)
    /\ interactiveElements' = SelectSeq(keyElements, IsInteractive)
    /\ navigationElements' = SelectSeq(keyElements, IsNavigation)
    /\ stage' = "categorized"
    /\ UNCHANGED <<dom, elements, keyElements, contentElements,
                   highLevelActions, lifecycleVars, elementVars, scenarioVars>>

\* const highLevelActions = this.inferActions(...), and the return
InferActions ==
    /\ stage = "categorized"
    /\ highLevelActions' =
           inferActions(formFields, interactiveElements, contentElements)
    /\ stage' = "done"
    /\ UNCHANGED <<dom, elements, keyElements, contentElements, formFields,
                   interactiveElements, navigationElements, lifecycleVars,
                   elementVars, scenarioVars>>

NextPage ==
    \/ ExtractElements
    \/ ExtractContentElements
    \/ Categorize
    \/ InferActions

SpecPage == InitPage /\ [][NextPage]_vars

(***************************************************************************)
(* Analysis of a page some of whose handles fail: every page of at most    *)
(* MaxNodes nodes of FaultyNodes, which holds a node for the interactive   *)
(* pass and for each content pass together with its failing twin.  The     *)
(* driver calls on one handle all sit in the try block of its loop         *)
(* iteration, before the push, so whichever call throws, the iteration     *)
(* leaves nothing behind.                                                  *)
(***************************************************************************)
Failing(n) == [n EXCEPT !.detached = TRUE]

FaultyNodes ==
    LET healthy == {N_select, N_heading, N_paragraph, N_list, N_table, N_image}
    IN  healthy \cup {N_button} \cup {Failing(n) : n \in healthy}

InitFaulty ==
    /\ dom \in SeqsUpTo(FaultyNodes, MaxNodes)
    /\ stage = "start"
    /\ elements = <<>>
    /\ keyElements = <<>>
    /\ contentElements = <<>>
    /\ formFields = <<>>
    /\ interactiveElements = <<>>
    /\ navigationElements = <<>>
    /\ highLevelActions = <<>>
    /\ LifecycleUnused
    /\ ElementUnused
    /\ ScenariosUnused

SpecFaulty == InitFaulty /\ [][NextPage]_vars

(***************************************************************************)
(* The structure summary of one document: getPageStructure on every body   *)
(* of Bodies.  A body has elements down to depth MaxDepth below it; an     *)
(* element has no child, one child, or MaxWidth children of which the      *)
(* first or the last has descendants.  The id of an element is the path    *)
(* of child numbers leading to it, so that a line of the summary names its *)
(* element.  node is document.body, out the summary returned.              *)
(***************************************************************************)
MaxDepth == 4
MaxWidth == 6

T_BODY == <<"B", "O", "D", "Y">>
T_MAIN == <<"M", "A", "I", "N">>
T_SPAN == <<"S", "P", "A", "N">>

\* trimmed, a text of 31 characters
V_long == <<" ">> \o Rep("t", 31) \o <<" ">>

Element(tagName, className, textContent, children) ==
    [tagName |-> tagName, id |-> <<>>, className |-> className,
     textContent |-> textContent, children |-> children]

\* <div> tttt... </div>, <main class="card big"> Ok </main>, <span></span>
Tagged(tagName, children) ==
    CASE tagName = T_DIV -> Element(T_DIV, <<>>, V_long, children)
      [] tagName = T_MAIN -> Element(T_MAIN, V_class, V_textOk, children)
      [] OTHER -> Element(tagName, <<>>, <<>>, children)

\* the child lists built around one child c
Arrangements(c) ==
    LET leaves == Rep(Tagged(T_SPAN, <<>>), MaxWidth - 1)
    IN  {<<c>>, <<c>> \o leaves, leaves \o <<c>>}

\* the elements of height at most d
RECURSIVE Shapes(_)
Shapes(d) ==
    LET tags == {T_DIV, T_MAIN, T_SPAN}
        leaves == {Tagged(t, <<>>) : t \in tags}
    IN  IF d = 0 THEN leaves
        ELSE leaves \cup
             UNION {{Tagged(t, kids) : t \in tags, kids \in Arrangements(c)} :
                       c \in Shapes(d - 1)}

\* the element with every id set to the path of child numbers from the body
RECURSIVE Labelled(_, _)
Labelled(e, path) ==
    [e EXCEPT !.id = path,
              !.children = [i \in 1..Len(e.children) |->
                               Labelled(e.children[i], path \o <<Digits[i + 1]>>)]]

Bodies ==
    {Labelled(Element(T_BODY, <<>>, text, kids), <<>>) :
        text \in {<<>>, V_long},
        kids \in {<<>>} \cup UNION {Arrangements(c) : c \in Shapes(MaxDepth - 1)}}

InitStructure ==
    /\ node \in Bodies
    /\ out = Idle
    /\ via = "none"
    /\ LifecycleUnused
    /\ PageUnused
    /\ ScenariosUnused

\* const pageStructure = await this.getPageStructure(page)
GetPageStructure ==
    /\ via = "none"
    /\ out' = getStructure(node, 0)
    /\ via' = "getPageStructure"
    /\ UNCHANGED <<node, lifecycleVars, pageVars, scenarioVars>>

NextStructure == GetPageStructure

SpecStructure == InitStructure /\ [][NextStructure]_vars

(***************************************************************************)
(* Categorisation and action inference on their own: every sub-list of the *)
(* key elements and of the content elements below, as the two extraction   *)
(* passes may return them.                                                 *)
(***************************************************************************)
V_submit == <<"S", "u", "b", "m", "i", "t">>
V_save == <<"S", "a", "v", "e">>
V_login == <<"L", "o", "g", "i", "n">>
V_home == <<"H", "o", "m", "e">>
V_signIn == <<"S", "i", "g", "n", " ", "I", "n">>
V_hello == <<"H", "e", "l", "l", "o">>

\* key elements, in the order of the selector catalogue
KeyPool ==
    <<extractElementInfo(
          Plain(T_INPUT, With(With(NoAttrs, "type", S_text), "placeholder", V_placeholder),
                <<>>)),
      extractElementInfo(
          Plain(T_INPUT, With(With(NoAttrs, "type", S_submit), "name", V_submit),
                <<>>)),
      extractElementInfo(Plain(S_button, NoAttrs, V_save)),
      extractElementInfo(Plain(S_button, NoAttrs, V_textOk)),
      extractElementInfo(Plain(T_A, With(NoAttrs, "href", V_href), V_login)),
      extractElementInfo(Plain(T_A, With(NoAttrs, "href", V_href), V_home)),
      extractElementInfo(
          Plain(T_DIV, With(With(NoAttrs, "role", S_checkbox), "aria-label", V_signIn),
                <<>>)),
      extractElementInfo(Plain(T_DIV, With(NoAttrs, "data-testid", V_testid), <<>>))>>

\* content elements, in the order of the passes
ContentPool ==
    <<headingElement(Plain(T_H1, NoAttrs, X_quotes)),
      headingElement(Plain(T_H3, NoAttrs, V_hello)),
      paragraphElement(N_paragraph),
      listElement(N_list),
      tableElement(N_table),
      imageElement(N_image)>>

\* the elements of pool at the positions in S, in the order of pool
Picked(pool, S) ==
    LET F[i \in 0..Len(pool)] ==
            IF i = 0 THEN <<>>
            ELSE IF i \in S THEN Append(F[i - 1], pool[i]) ELSE F[i - 1]
    IN  F[Len(pool)]

SubLists(pool) == {Picked(pool, S) : S \in SUBSET (1..Len(pool))}

InitActions ==
    /\ dom = <<>>
    /\ stage = "content"
    /\ elements = <<>>
    /\ keyElements \in SubLists(KeyPool)
    /\ contentElements \in SubLists(ContentPool)
    /\ formFields = <<>>
    /\ interactiveElements = <<>>
    /\ navigationElements = <<>>
    /\ highLevelActions = <<>>
    /\ LifecycleUnused
    /\ ElementUnused
    /\ ScenariosUnused

NextActions == Categorize \/ InferActions

SpecActions == InitActions /\ [][NextActions]_vars

(***************************************************************************)
(* Scenario generation (src/src/openaiService.ts, generateScenarios): one  *)
(* call with a user story and a finished PageAnalysis, the model request   *)
(* it awaits and every way that request can end.                           *)
(*   userStory   the user story of the call                                *)
(*   completion  what openai.chat.completions.create came back with        *)
(*   feature     the BDDFeature the caller received                        *)
(*   genPc       position of the call                                      *)
(* The PageAnalysis of the call is the one held by the page variables.     *)
(***************************************************************************)
K_password == <<"p", "a", "s", "s", "w", "o", "r", "d">>

\* the character of s at position i, "" beyond its end
At(s, i) == IF i \in 1..Len(s) THEN s[i] ELSE ""

\* the first position from i on that holds no JSON white space
RECURSIVE SkipWs(_, _)
SkipWs(s, i) ==
    IF At(s, i) \in {" ", "\n", "\t"} THEN SkipWs(s, i + 1) ELSE i

\* the position after the string whose opening quote precedes position j,
\* 0 when the string is not closed
RECURSIVE ScanString(_, _)
ScanString(s, j) ==
    IF j > Len(s) THEN 0
    ELSE IF s[j] = "\"" THEN j + 1
    ELSE IF s[j] = "\\" THEN ScanString(s, j + 2)
    ELSE ScanString(s, j + 1)

\* the position after the digits that start at position j
RECURSIVE ScanDigits(_, _)
ScanDigits(s, j) ==
    IF \E d \in 1..Len(Digits) : Digits[d] = At(s, j)
      THEN ScanDigits(s, j + 1) ELSE j

RECURSIVE ParseValue(_, _)
RECURSIVE ParseElements(_, _)
RECURSIVE ParseMembers(_, _)

\* the position after the JSON value that starts, after white space, at
\* position i; 0 when there is none
ParseValue(s, i) ==
    LET k == SkipWs(s, i)
        c == At(s, k)
        Word(w) == SubSeq(s, k, Min(Len(s), k + Len(w) - 1)) = w
    IN  IF c = "\"" THEN ScanString(s, k + 1)
        ELSE IF c = "[" THEN
            IF At(s, SkipWs(s, k + 1)) = "]" THEN SkipWs(s, k + 1) + 1
            ELSE ParseElements(s, k + 1)
        ELSE IF c = "{" THEN
            IF At(s, SkipWs(s, k + 1)) = "}" THEN SkipWs(s, k + 1) + 1
            ELSE ParseMembers(s, k + 1)
        ELSE IF Word(<<"t", "r", "u", "e">>) THEN k + 4
        ELSE IF Word(<<"f", "a", "l", "s", "e">>) THEN k + 5
        ELSE IF Word(<<"n", "u", "l", "l">>) THEN k + 4
        ELSE IF ScanDigits(s, k) > k THEN ScanDigits(s, k)
        ELSE 0

\* the position after the "]" that ends the array whose next element
\* starts at position i; 0 when the array is malformed
ParseElements(s, i) ==
    LET v == ParseValue(s, i)
        k == SkipWs(s, v)
    IN  IF v = 0 THEN 0
        ELSE IF At(s, k) = "," THEN ParseElements(s, k + 1)
        ELSE IF At(s, k) = "]" THEN k + 1
        ELSE 0

\* the position after the "}" that ends the object whose next member
\* starts at position i; 0 when the object is malformed
ParseMembers(s, i) ==
    LET q == SkipWs(s, i)
        e == IF At(s, q) = "\"" THEN ScanString(s, q + 1) ELSE 0
        c == SkipWs(s, e)
        v == IF e # 0 /\ At(s, c) = ":" THEN ParseValue(s, c + 1) ELSE 0
        k == SkipWs(s, v)
    IN  IF v = 0 THEN 0
        ELSE IF At(s, k) = "," THEN ParseMembers(s, k + 1)
        ELSE IF At(s, k) = "}" THEN k + 1
        ELSE 0

\* JSON.parse(content) does not throw
IsValidJson(s) ==
    LET e == ParseValue(s, 1)
    IN  e # 0 /\ SkipWs(s, e) = Len(s) + 1

\* the fallback deciding on the user story alone
generateFallbackScenariosStoryOnly(story, pageAnalysis) ==
    IF Includes(ToLowerCase(story), K_login)
      THEN [name |-> "User Authentication",
            description |-> "Test user login functionality",
            tags |-> <<"@smoke", "@auth">>,
            scenarios |->
                <<[name |-> "Successful login with valid credentials",
                   tags |-> <<"@positive", "@critical">>,
                   steps |-> <<"Given", "When", "And", "And", "Then", "And">>],
                  [name |-> "Failed login with invalid credentials",
                   tags |-> <<"@negative">>,
                   steps |-> <<"Given", "When", "And", "And", "Then", "And">>]>>]
      ELSE [name |-> "Page Functionality",
            description |-> "Test basic page functionality",
            tags |-> <<"@smoke">>,
            scenarios |->
                <<[name |-> "Page loads successfully",
                   tags |-> <<"@positive">>,
                   steps |-> <<"Given", "Then", "And">>]>>]

\* generateFallbackScenarios(userStory, pageAnalysis); of every step the
\* keyword is kept, its text (which quotes the url and the title) is not
generateFallbackScenarios(story, pageAnalysis) ==
    LET isLoginPage ==
            \/ Includes(ToLowerCase(story), K_login)
            \/ \E i \in 1..Len(pageAnalysis.form_fields) :
                  Includes(ToLowerCase(pageAnalysis.form_fields[i].name_or_label),
                           K_password)
    IN  IF isLoginPage
          THEN [name |-> "User Authentication",
                description |-> "Test user login functionality",
                tags |-> <<"@smoke", "@auth">>,
                scenarios |->
                    <<[name |-> "Successful login with valid credentials",
                       tags |-> <<"@positive", "@critical">>,
                       steps |-> <<"Given", "When", "And", "And", "Then", "And">>],
                      [name |-> "Failed login with invalid credentials",
                       tags |-> <<"@negative">>,
                       steps |-> <<"Given", "When", "And", "And", "Then", "And">>]>>]
          ELSE [name |-> "Page Functionality",
                description |-> "Test basic page functionality",
                tags |-> <<"@smoke">>,
                scenarios |->
                    <<[name |-> "Page loads successfully",
                       tags |-> <<"@positive">>,
                       steps |-> <<"Given", "Then", "And">>]>>]

\* the PageAnalysis the page variables hold
PageAnalysis ==
    [key_elements |-> keyElements,
     content_elements |-> contentElements,
     form_fields |-> formFields,
     interactive_elements |-> interactiveElements,
     navigation_elements |-> navigationElements,
     high_level_actions |-> highLevelActions]

\* the try block of generateScenarios on what the request came back with:
\* the feature parsed, denoted by the JSON text, or the error thrown
TryGenerate(response) ==
    IF response.rejected THEN [ok |-> FALSE, error |-> "request failed"]
    ELSE LET content == IF response.choices = <<>> THEN NULL
                        ELSE response.choices[1].content
         IN  IF ~Truthy(content)
               THEN [ok |-> FALSE, error |-> "No response from OpenAI"]
             ELSE IF ~IsValidJson(content)
               THEN [ok |-> FALSE, error |-> "SyntaxError"]
             ELSE [ok |-> TRUE, value |-> [json |-> content]]

\* what generateScenarios hands to its caller
generateScenarios(story, pageAnalysis, response) ==
    LET attempt == TryGenerate(response)
    IN  IF attempt.ok THEN attempt.value
        ELSE generateFallbackScenarios(story, pageAnalysis)

Y_login ==
    <<"A", "s", " ", "a", " ", "u", "s", "e", "r", " ", "I", " ", "c", "a", "n",
      " ", "L", "o", "g", "i", "n">>
Y_logIn == <<"L", "O", "G", " ", "I", "N", " ", "A", "N", "D", " ", "O", "U", "T">>
Y_view == <<"v", "i", "e", "w", " ", "t", "h", "e", " ", "p", "a", "g", "e">>

Stories == {<<>>, Y_login, Y_logIn, Y_view}

V_password == <<"P", "a", "s", "s", "w", "o", "r", "d">>

\* form fields: <input type="text" placeholder="Email">,
\* <input type="password" aria-label="Password">, <select name="q">
FieldPool ==
    <<KeyPool[1],
      extractElementInfo(
          Plain(T_INPUT,
                With(With(NoAttrs, "type", S_password), "aria-label", V_password),
                <<>>)),
      extractElementInfo(N_select)>>

R_prose == <<"S", "o", "r", "r", "y">>
R_prefixed == <<"O", "k", ":", " ", "{", "}">>
R_cut == <<"{", "\"", "n", "a", "m", "e", "\"", ":", "\"", "F", "\"">>
R_trailing ==
    <<"{", "\"", "n", "a", "m", "e", "\"", ":", "\"", "F", "\"", "}", " ", "o", "k">>
R_feature ==
    <<"{", "\"", "n", "a", "m", "e", "\"", ":", " ", "\"", "F", "\"", ",", " ",
      "\"", "t", "a", "g", "s", "\"", ":", " ", "[", "\"", "@", "a", "\"", "]",
      ",", " ", "\"", "s", "c", "e", "n", "a", "r", "i", "o", "s", "\"", ":", " ",
      "[", "]", "}">>
R_escaped ==
    <<"{", "\"", "n", "a", "m", "e", "\"", ":", "\"", "a", "\\", "\"", "b", "\"",
      ",", "\"", "n", "\"", ":", "[", "1", ",", "t", "r", "u", "e", "]", "}">>

\* message contents: null, "", prose, JSON after prose, truncated JSON, JSON
\* followed by prose, and two JSON texts
Contents ==
    {NULL, <<>>, R_prose, R_prefixed, R_cut, R_trailing, R_feature, R_escaped}

\* completion.choices: empty, or one choice with a message content
Choices == {<<>>} \cup {<<[content |-> c]>> : c \in Contents}

InitScenarios ==
    /\ userStory \in Stories
    /\ completion = Idle
    /\ feature = Idle
    /\ genPc = "idle"
    /\ dom = <<>>
    /\ stage = "done"
    /\ elements = <<>>
    /\ keyElements = <<>>
    /\ contentElements = <<>>
    /\ formFields \in SubLists(FieldPool)
    /\ interactiveElements = <<>>
    /\ navigationElements = <<>>
    /\ highLevelActions = <<>>
    /\ LifecycleUnused
    /\ ElementUnused

\* generateScenarios is called: the prompt is built and the request sent
GenerateScenarios ==
    /\ genPc = "idle"
    /\ genPc' = "awaiting"
    /\ UNCHANGED <<userStory, completion, feature, lifecycleVars, elementVars,
                   pageVars>>

\* the request fails: create() rejects
CreateRejects ==
    /\ genPc = "awaiting"
    /\ completion' = [rejected |-> TRUE, choices |-> <<>>]
    /\ feature' = generateScenarios(userStory, PageAnalysis, completion')
    /\ genPc' = "returned"
    /\ UNCHANGED <<userStory, lifecycleVars, elementVars, pageVars>>

\* the request succeeds: create() resolves with some choices
CreateResolves ==
    /\ genPc = "awaiting"
    /\ \E choices \in Choices :
          completion' = [rejected |-> FALSE, choices |-> choices]
    /\ feature' = generateScenarios(userStory, PageAnalysis, completion')
    /\ genPc' = "returned"
    /\ UNCHANGED <<userStory, lifecycleVars, elementVars, pageVars>>

NextScenarios ==
    \/ GenerateScenarios
    \/ CreateRejects
    \/ CreateResolves

SpecScenarios == InitScenarios /\ [][NextScenarios]_vars

(***************************************************************************)
(* Properties of the page analysis (SpecPage, SpecActions) and of the      *)
(* session lifecycle (Spec).                                               *)
(***************************************************************************)
\* the candidate at selector s and node n of the page: the node matches the
\* selector and its extraction yields an element
IsCandidate(s, n) ==
    /\ MatchesSelector(dom[n], locators[s])
    /\ extractElementInfo(dom[n]) # NoElement

\* (s1, n1) is extracted before (s2, n2), or is the same candidate
ExtractedNoLater(s1, n1, s2, n2) == s1 < s2 \/ (s1 = s2 /\ n1 <= n2)

\* C1: key_elements holds no two elements with the same suggested_locator,
\* and for every locator some candidate produces, the element retained is
\* the candidate extracted earliest: selector-catalogue order, then the
\* order of the handles of that selector.
C1_DedupKeepsEarliest ==
    (stage # "start") =>
        /\ \A i, j \in 1..Len(keyElements) :
              i # j => keyElements[i].suggested_locator
                          # keyElements[j].suggested_locator
        /\ \A s \in 1..Len(locators), n \in 1..Len(dom) :
              IsCandidate(s, n) =>
                  \E s0 \in 1..Len(locators), n0 \in 1..Len(dom) :
                      /\ IsCandidate(s0, n0)
                      /\ extractElementInfo(dom[n0]).suggested_locator
                            = extractElementInfo(dom[n]).suggested_locator
                      /\ \A s1 \in 1..Len(locators), n1 \in 1..Len(dom) :
                            (/\ IsCandidate(s1, n1)
                             /\ extractElementInfo(dom[n1]).suggested_locator
                                   = extractElementInfo(dom[n]).suggested_locator)
                               => ExtractedNoLater(s0, n0, s1, n1)
                      /\ \E k \in 1..Len(keyElements) :
                            keyElements[k] = extractElementInfo(dom[n0])

\* two different candidates had the same locator, the later node of the
\* document being extracted first, and one element was retained
C1_Witness ==
    /\ stage = "elements"
    /\ Len(dom) = 2
    /\ dom[1] = N_divButton
    /\ dom[2] = N_button
    /\ Len(elements) = 2
    /\ keyElements = <<extractElementInfo(N_button)>>

\* an analyzePage step leaves every launched browser as it is and does not
\* clear this.browser
BrowserKept ==
    /\ browser # 0 => browser' # 0
    /\ \A b \in 1..Len(browsers) : browsers'[b] = browsers[b]

\* C2: when an analyzePage call completes, on every exit path, the page
\* session it opened is closed; and no step of analyzePage closes or clears
\* the shared browser handle.
C2_SessionReleased ==
    /\ [](\A r \in CallStates : r.pc = "done" => ~r.pageOpen)
    /\ [][(\E r \in CallStates : AnalyzePage(r)) => BrowserKept]_vars

\* a call failed in an analysis step after its page was opened; the page is
\* closed and the browser it was opened on is still the open shared handle
C2_Witness ==
    \E r \in CallStates :
        /\ r.pc = "done"
        /\ r.error = "AnalysisError"
        /\ r.page # 0
        /\ ~r.pageOpen
        /\ browser = r.page
        /\ browsers[browser].state = "open"

\* C3: while close() is never called, the browser is launched at most once
\* and every page session is opened on that one browser, in any
\* interleaving of the analyzePage calls.
C3_SingleLaunch ==
    (closesLeft = MaxCloses) =>
        /\ Len(browsers) <= 1
        /\ \A r \in CallStates : r.page \in {0, 1}

\* C4: when navigation fails, no analysis step runs, navigation was
\* attempted exactly once, the caller receives the navigation error and no
\* PageAnalysis, and the page session is closed.
C4_NavigationFailure ==
    \A r \in CallStates :
        /\ r.gotos <= 1
        /\ r.error = "NavigationError" =>
              /\ r.gotos = 1
              /\ r.steps = 0
              /\ r.pc \in {"finally", "done"}
              /\ r.pc = "done" => (r.result = "NavigationError" /\ ~r.pageOpen)

\* a call whose navigation failed has completed
C4_Witness ==
    \E r \in CallStates :
        /\ r.pc = "done"
        /\ r.error = "NavigationError"
        /\ r.result = "NavigationError"
        /\ r.page # 0

Range(seq) == {seq[i] : i \in 1..Len(seq)}

ActionLabels ==
    <<"fill form fields", "submit form", "navigate via links",
      "interact with buttons", "verify page headings", "verify text content",
      "verify list content", "verify table data", "verify images">>

\* the trigger of a label, on the lists inferActions receives
Trigger(label) ==
    LET interactive == Range(interactiveElements)
        content == Range(contentElements)
        SubmitNamed(el) ==
            \E kw \in {K_submit, K_signIn, K_login, K_save} :
                Includes(ToLowerCase(el.name_or_label), kw)
    IN  CASE label = "fill form fields" -> formFields # <<>>
          [] label = "submit form" -> \E el \in interactive : SubmitNamed(el)
          [] label = "navigate via links" ->
                \E el \in interactive : el.role = S_link
          [] label = "interact with buttons" ->
                \E el \in interactive :
                    /\ el.role = S_button
                    /\ \A sb \in interactive :
                          SubmitNamed(sb) =>
                              sb.suggested_locator # el.suggested_locator
          [] label = "verify page headings" ->
                \E el \in content : el.role = S_heading
          [] label = "verify text content" ->
                \E el \in content : el.role = S_paragraph
          [] label = "verify list content" -> \E el \in content : el.role = S_list
          [] label = "verify table data" -> \E el \in content : el.role = S_table
          [] label = "verify images" -> \E el \in content : el.role = S_image

\* C10: high_level_actions is a duplicate-free subsequence of the fixed
\* label list, each label is present exactly when its own trigger holds,
\* and a page with no form fields, no buttons or links and only headings
\* yields exactly <<"verify page headings">>.
C10_ActionsFollowTriggers ==
    (stage = "done") =>
        /\ highLevelActions
              = SelectSeq(ActionLabels, LAMBDA l : l \in Range(highLevelActions))
        /\ \A l \in Range(ActionLabels) :
              (l \in Range(highLevelActions)) <=> Trigger(l)
        /\ (/\ formFields = <<>>
            /\ interactiveElements = <<>>
            /\ contentElements # <<>>
            /\ \A el \in Range(contentElements) : el.role = S_heading)
              => highLevelActions = <<"verify page headings">>

\* two headings and nothing else gave exactly the heading label
C10_Witness ==
    /\ stage = "done"
    /\ formFields = <<>>
    /\ interactiveElements = <<>>
    /\ Len(contentElements) = 2
    /\ \A el \in Range(contentElements) : el.role = S_heading
    /\ highLevelActions = <<"verify page headings">>

(***************************************************************************)
(* Properties of the single-node extraction (SpecElement).                 *)
(***************************************************************************)
Present(v) == v # NULL /\ v # <<>>

\* the first rule of a rule list that applies
FirstRule(rules) ==
    CHOOSE i \in 1..Len(rules) : rules[i] /\ \A j \in 1..(i - 1) : ~rules[j]

\* C5: generateLocator returns the locator of the first matching rule in the
\* order testid, aria-label, role+name for a button or link whose name is not
\* "unnamed element", placeholder for a textbox, name attribute, id, tag only.
C5_LocatorPriority ==
    (via = "extractElementInfo" /\ out # NoElement) =>
        LET a == node.attrs
            role == out.role
            name == out.name_or_label
            rules == <<Present(a["data-testid"]),
                       Present(a["aria-label"]),
                       role \in {S_button, S_link} /\ name # S_unnamed,
                       role = S_textbox /\ Present(a["placeholder"]),
                       Present(a["name"]),
                       Present(a["id"]),
                       TRUE>>
            result == <<L_testid \o a["data-testid"] \o L_end,
                        L_label \o a["aria-label"] \o L_end,
                        (IF role = S_button THEN L_roleButton ELSE L_roleLink)
                            \o name \o L_roleEnd,
                        L_placeholder \o a["placeholder"] \o L_end,
                        L_nameAttr \o a["name"] \o L_nameAttrEnd,
                        L_idSel \o a["id"] \o L_end,
                        L_locator \o ToLowerCase(node.tagName) \o L_end>>
        IN  out.suggested_locator = result[FirstRule(rules)]

\* an element with both data-testid and aria-label got the testid locator
C5_Witness ==
    /\ via = "extractElementInfo"
    /\ out # NoElement
    /\ Present(node.attrs["data-testid"])
    /\ Present(node.attrs["aria-label"])
    /\ out.suggested_locator = L_testid \o node.attrs["data-testid"] \o L_end

\* the text a content pass hands to generateContentLocator
ContentSeed(n, pass) ==
    CASE pass \in {"heading", "paragraph"} -> OrEmpty(TrimOpt(n.textContent))
      [] pass = "list" -> IF n.items = <<>> THEN <<>> ELSE OrEmpty(TrimOpt(n.items[1]))
      [] pass = "table" -> OrEmpty(n.caption)
      [] pass = "image" -> OrEmpty(n.attrs["alt"])

ContentPassNames == {"heading", "paragraph", "list", "table", "image"}

\* C6: generateContentLocator returns the locator of the first matching rule
\* in the order id, heading with text, paragraph with text (first 20
\* characters), image with alt text, class (tag + first class token), text
\* shorter than 50 characters (tag + text filter), bare tag.
C6_ContentLocatorPriority ==
    (via \in ContentPassNames /\ out # NoElement) =>
        LET id == node.attrs["id"]
            class == node.attrs["class"]
            text == ContentSeed(node, via)
            role == out.role
            tag == out.tag_name
            rules == <<Present(id),
                       role = S_heading /\ text # <<>>,
                       role = S_paragraph /\ text # <<>>,
                       role = S_image /\ text # <<>>,
                       Present(class),
                       text # <<>> /\ Len(text) < 50,
                       TRUE>>
            result == <<L_idSel \o id \o L_end,
                        L_roleHeading \o EscapeSingle(text) \o L_roleEnd,
                        L_text \o EscapeSingle(SubSeq(text, 1, Min(20, Len(text))))
                            \o L_end,
                        L_alt \o EscapeSingle(text) \o L_end,
                        L_locator \o tag \o L_dot \o SplitFirst(class) \o L_end,
                        L_locator \o tag \o L_hasText \o EscapeDouble(text)
                            \o L_hasTextEnd,
                        L_locator \o tag \o L_end>>
        IN  out.suggested_locator = result[FirstRule(rules)]

\* a heading with an id and a text got the id locator
C6_Witness ==
    /\ via = "heading"
    /\ out # NoElement
    /\ Present(node.attrs["id"])
    /\ Present(TrimOpt(node.textContent))
    /\ out.suggested_locator = L_idSel \o node.attrs["id"] \o L_end

\* A locator is JavaScript source text.  JsSkeleton reads it as the
\* JavaScript lexer does: the characters outside string literals are kept,
\* every complete literal becomes the token "STR", and a literal the text
\* ends inside becomes "UNTERMINATED".
RECURSIVE JsSkeleton(_, _)
JsSkeleton(s, mode) ==
    IF s = <<>> THEN (IF mode = "code" THEN <<>> ELSE <<"UNTERMINATED">>)
    ELSE LET c == Head(s)
         IN  IF mode = "code"
               THEN IF c = "'" THEN JsSkeleton(Tail(s), "sq")
                    ELSE IF c = "\"" THEN JsSkeleton(Tail(s), "dq")
                    ELSE <<c>> \o JsSkeleton(Tail(s), "code")
               ELSE IF c = "\\"
                      THEN JsSkeleton(IF Len(s) >= 2 THEN Tail(Tail(s)) ELSE <<>>, mode)
                    ELSE IF (mode = "sq" /\ c = "'") \/ (mode = "dq" /\ c = "\"")
                      THEN <<"STR">> \o JsSkeleton(Tail(s), "code")
                    ELSE JsSkeleton(Tail(s), mode)

\* what the lexer reads when no embedded text ends its quoted string
TemplateSkeletons ==
    {JsSkeleton(t, "code") :
        t \in {L_testid \o L_end, L_label \o L_end, L_roleButton \o L_roleEnd,
               L_roleLink \o L_roleEnd, L_roleHeading \o L_roleEnd,
               L_placeholder \o L_end, L_locator \o L_end, L_text \o L_end,
               L_alt \o L_end}}

\* C7: in every locator of generateLocator and generateContentLocator the
\* embedded text has its delimiting quote escaped, so it never terminates
\* the quoted string it is embedded in.
C7_EmbeddedTextStaysQuoted ==
    (via # "none" /\ out # NoElement) =>
        JsSkeleton(out.suggested_locator, "code") \in TemplateSkeletons

\* C8: a non-empty role attribute is returned unchanged; otherwise the role
\* follows the tag/type table, every other tag is generic, and the role is
\* never undefined.
C8_RoleTable ==
    (via = "extractElementInfo" /\ out # NoElement) =>
        LET r == node.attrs["role"]
            tag == ToLowerCase(node.tagName)
            type == node.attrs["type"]
        IN  /\ Present(out.role)
            /\ Present(r) => out.role = r
            /\ ~Present(r) =>
                 /\ tag = S_button => out.role = S_button
                 /\ tag = S_a => out.role = S_link
                 /\ tag = S_select => out.role = S_combobox
                 /\ tag = S_textarea => out.role = S_textbox
                 /\ tag = S_input =>
                      /\ type \in {S_text, S_email, S_password, S_search}
                            => out.role = S_textbox
                      /\ type = S_checkbox => out.role = S_checkbox
                      /\ type = S_radio => out.role = S_radio
                      /\ type = S_submit => out.role = S_button
                      /\ type \notin {S_text, S_email, S_password, S_search,
                                      S_checkbox, S_radio, S_submit}
                            => out.role = S_textbox
                 /\ tag \notin {S_button, S_a, S_select, S_textarea, S_input}
                      => out.role = S_generic

\* an input of type submit without a role attribute was classified a button
C8_Witness ==
    /\ via = "extractElementInfo"
    /\ out # NoElement
    /\ ~Present(node.attrs["role"])
    /\ ToLowerCase(node.tagName) = S_input
    /\ node.attrs["type"] = S_submit
    /\ out.role = S_button

\* C9: getElementName returns the first non-empty of aria-label, data-testid,
\* placeholder, trimmed text content, name, id, href, and "unnamed element"
\* when all seven are absent or empty.
C9_NamePriority ==
    (via = "extractElementInfo" /\ out # NoElement) =>
        LET c == <<node.attrs["aria-label"], node.attrs["data-testid"],
                   node.attrs["placeholder"], TrimOpt(node.textContent),
                   node.attrs["name"], node.attrs["id"], node.attrs["href"]>>
            nonEmpty == {i \in 1..7 : Present(c[i])}
        IN  IF nonEmpty = {} THEN out.name_or_label = S_unnamed
            ELSE \E i \in nonEmpty :
                    /\ \A j \in nonEmpty : i <= j
                    /\ out.name_or_label = c[i]

\* the trimmed text content was preferred to the name attribute
C9_Witness ==
    /\ via = "extractElementInfo"
    /\ out # NoElement
    /\ ~Present(node.attrs["aria-label"])
    /\ ~Present(node.attrs["data-testid"])
    /\ ~Present(node.attrs["placeholder"])
    /\ node.textContent = V_textOk
    /\ Present(node.attrs["name"])
    /\ out.name_or_label = <<"O", "k">>


(***************************************************************************)
(* Properties of the views and of the action labels (SpecActions,          *)
(* SpecPage).                                                              *)
(***************************************************************************)
\* the name contains submit, sign in, login or save, in any letter case
NamedLikeSubmit(el) ==
    \E kw \in {K_submit, K_signIn, K_login, K_save} :
        Includes(ToLowerCase(el.name_or_label), kw)

\* C11: "interact with buttons" is among the actions exactly when some
\* interactive element of role button has a locator different from the
\* locator of every interactive element named like a submit control; when
\* there are buttons and each of them is such a submit control, the actions
\* hold "submit form" and not "interact with buttons".
C11_ButtonsBesideSubmit ==
    (stage = "done") =>
        LET interactive == Range(interactiveElements)
            buttons == {el \in interactive : el.role = S_button}
            actions == Range(highLevelActions)
        IN  /\ ("interact with buttons" \in actions)
                  <=> \E el \in buttons :
                         \A sb \in interactive :
                            NamedLikeSubmit(sb)
                               => sb.suggested_locator # el.suggested_locator
            /\ (buttons # {} /\ \A el \in buttons : NamedLikeSubmit(el))
                  => /\ "submit form" \in actions
                     /\ "interact with buttons" \notin actions

\* the only button of the page was the Save button
C11_Witness ==
    /\ stage = "done"
    /\ \E el \in Range(interactiveElements) : el.role = S_button
    /\ \A el \in Range(interactiveElements) :
          el.role = S_button => el.name_or_label = V_save
    /\ "submit form" \in Range(highLevelActions)
    /\ "interact with buttons" \notin Range(highLevelActions)


\* view holds exactly the elements of list that are in view, in the order
\* of list: an order-preserving sub-list
IsSubList(view, list) ==
    view = SelectSeq(list, LAMBDA e : e \in Range(view))

\* C12: form_fields, interactive_elements and navigation_elements are
\* order-preserving sub-lists of key_elements; membership depends only on
\* role, tag_name and href; every key element of tag input is a form field,
\* every one of tag button is interactive, every one of tag a with an href
\* is interactive and a navigation element.
C12_ViewsOfKeyElements ==
    (stage \in {"categorized", "done"}) =>
        LET Href(e) == Get(e.attributes, "href")
            Views == {formFields, interactiveElements, navigationElements}
        IN  /\ \A view \in Views : IsSubList(view, keyElements)
            /\ \A view \in Views : \A e1, e2 \in Range(keyElements) :
                  (/\ e1.role = e2.role
                   /\ e1.tag_name = e2.tag_name
                   /\ Href(e1) = Href(e2))
                     => (e1 \in Range(view) <=> e2 \in Range(view))
            /\ \A e \in Range(keyElements) :
                  /\ e.tag_name = S_input => e \in Range(formFields)
                  /\ e.tag_name = S_button => e \in Range(interactiveElements)
                  /\ (e.tag_name = S_a /\ Truthy(Href(e)))
                        => /\ e \in Range(interactiveElements)
                           /\ e \in Range(navigationElements)

\* a submit input was both a form field and interactive, a link was both
\* interactive and a navigation element, and one key element was in no view
C12_Witness ==
    /\ stage = "categorized"
    /\ \E e \in Range(formFields) \cap Range(interactiveElements) :
          e.tag_name = S_input /\ e.role = S_button
    /\ \E e \in Range(interactiveElements) \cap Range(navigationElements) :
          e.tag_name = S_a
    /\ \E e \in Range(keyElements) :
          e \notin Range(formFields) \cup Range(interactiveElements)
                      \cup Range(navigationElements)


\* node n of the page is represented in key_elements: a selector of the
\* catalogue matches it and the element extracted from it was retained
InKeyElements(n) ==
    /\ \E i \in 1..Len(locators) : MatchesSelector(dom[n], locators[i])
    /\ extractElementInfo(dom[n]) \in Range(keyElements)

\* node n of the page is represented in content_elements: a content pass
\* selects it and the element that pass makes of it is in the list
InContentElements(n) ==
    \E p \in 1..Len(passes) :
        /\ MatchesContent(dom[n], passes[p])
        /\ contentElement(dom[n], passes[p]) \in Range(contentElements)

\* C13: no node of the analysed page is represented both by an element of
\* key_elements and by an element of content_elements.
C13_ContentDisjointFromKey ==
    (stage \in {"content", "categorized", "done"}) =>
        \A n \in 1..Len(dom) : ~(InKeyElements(n) /\ InContentElements(n))


\* C14: no two elements of content_elements have the same
\* suggested_locator.
C14_ContentLocatorsUnique ==
    (stage \in {"content", "categorized", "done"}) =>
        \A i, j \in 1..Len(contentElements) :
            i # j => contentElements[i].suggested_locator
                        # contentElements[j].suggested_locator


(***************************************************************************)
(* Properties of the analysis of a page with failing handles (SpecFaulty). *)
(***************************************************************************)
\* the page without the nodes whose handle fails
Healthy(page) == SelectSeq(page, LAMBDA n : ~n.detached)

\* C15: a node whose tag, attribute or text read fails is dropped and
\* nothing else changes: the interactive pass and the five content passes
\* yield, in the same order, what they yield on the page without the
\* failing nodes, and the analysis goes on to its result.
C15_FailingNodeSkipped ==
    /\ (stage # "start") =>
          /\ elements = CandidateElements(Healthy(dom), 1)
          /\ keyElements = extractElements(Healthy(dom))
    /\ (stage \in {"content", "categorized", "done"}) =>
          /\ contentElements = extractContentElements(Healthy(dom))
          /\ \A p \in 1..Len(passes) :
                SelectSeq(contentElements, LAMBDA e : e.role = passes[p])
                    = ElementsOfPass(Healthy(dom), passes[p])
    /\ (stage = "done") =>
          highLevelActions
              = inferActions(formFields, interactiveElements, contentElements)

\* a failing select, then a button, then a failing paragraph: the button
\* and no other element were returned
C15_Witness ==
    /\ stage = "done"
    /\ dom = <<Failing(N_select), N_button, Failing(N_paragraph)>>
    /\ keyElements = <<extractElementInfo(N_button)>>
    /\ contentElements = <<>>


(***************************************************************************)
(* Properties of the structure summary (SpecStructure).                    *)
(***************************************************************************)
\* the lines of a text, each without the "\n" that ends it
RECURSIVE SplitLines(_)
SplitLines(s) ==
    IF s = <<>> THEN <<>>
    ELSE LET n == CHOOSE k \in 1..Len(s) :
                      s[k] = "\n" /\ \A j \in 1..(k - 1) : s[j] # "\n"
         IN  <<SubSeq(s, 1, n - 1)>> \o SplitLines(SubSeq(s, n + 1, Len(s)))

\* the number of spaces a line starts with
LeadingSpaces(line) ==
    CHOOSE k \in 0..Len(line) :
        /\ \A j \in 1..k : line[j] = " "
        /\ k = Len(line) \/ line[k + 1] # " "

\* the id a line shows after "#": the path of the element it is about
LinePath(line) ==
    IF \A i \in 1..Len(line) : line[i] # "#" THEN <<>>
    ELSE LET h == CHOOSE i \in 1..Len(line) :
                      line[i] = "#" /\ \A j \in 1..(i - 1) : line[j] # "#"
             IsDigit(c) == \E d \in 1..Len(Digits) : Digits[d] = c
             e == CHOOSE k \in h..Len(line) :
                      /\ \A j \in (h + 1)..k : IsDigit(line[j])
                      /\ k = Len(line) \/ ~IsDigit(line[k + 1])
         IN  SubSeq(line, h + 1, e)

\* the child number a path character stands for
ChildNumber(c) == (CHOOSE d \in 1..Len(Digits) : Digits[d] = c) - 1

\* the element of the document reached from root by a path
RECURSIVE ElementAt(_, _)
ElementAt(root, path) ==
    IF path = <<>> THEN root
    ELSE ElementAt(root.children[ChildNumber(Head(path))], Tail(path))

\* the positions of the double quotes of a line
Quotes(line) == {i \in 1..Len(line) : line[i] = "\""}

\* text, the outline getStructure gave of the element at path top when it
\* was called with depth d0, stays within the bounds: no line deeper than
\* depth 3; below top only first-to-fifth children, and only under elements
\* of a structural tag; a snippet only at depth 0 or 1, of at most 30
\* characters; the indentation of a line is its depth
WithinBounds(text, top, d0) ==
    \A l \in Range(SplitLines(text)) :
        LET path == LinePath(l)
            depth == d0 + Len(path) - Len(top)
        IN  /\ SubSeq(path, 1, Len(top)) = top
            /\ LeadingSpaces(l) = 2 * depth
            /\ depth \in 0..3
            /\ \A k \in (Len(top) + 1)..Len(path) : ChildNumber(path[k]) <= 5
            /\ \A k \in Len(top)..(Len(path) - 1) :
                  ToLowerCase(ElementAt(node, SubSeq(path, 1, k)).tagName)
                      \in StructuralTags
            /\ Quotes(l) # {} =>
                  /\ depth <= 1
                  /\ \E a, b \in Quotes(l) :
                        /\ a < b
                        /\ \A q \in Quotes(l) : a <= q /\ q <= b
                        /\ b - a - 1 <= 30

\* C16: the structure summary has lines only for elements at depth 0 to 3,
\* lists only the first 5 children of an element and only the children of
\* main, section, article, nav, header, footer, form and div elements, and
\* shows a text snippet, of at most 30 characters, only at depth 0 or 1.
\* The same holds of the outline getStructure gives of each child of the
\* body at depth 1.
C16_StructureBounded ==
    (via = "getPageStructure") =>
        /\ WithinBounds(out, <<>>, 0)
        /\ \A i \in 1..Len(node.children) :
              WithinBounds(getStructure(node.children[i], 1),
                           node.children[i].id, 1)

\* a body with more than 5 children and elements 4 levels below it was
\* summarised
C16_Witness ==
    /\ via = "getPageStructure"
    /\ Len(node.children) > 5
    /\ \E p \in [1..4 -> {"1", "6"}] :
          /\ \A k \in 1..4 :
                ChildNumber(p[k]) <= Len(ElementAt(node, SubSeq(p, 1, k - 1)).children)
          /\ ElementAt(node, p).tagName = T_SPAN
    /\ out # <<>>
    /\ out[Len(out)] = "\n"


(***************************************************************************)
(* Properties of the paragraph pass and of the list pass (SpecElement).    *)
(***************************************************************************)
\* C17: a paragraph node whose handle does not fail yields an element
\* exactly when its trimmed text has more than 10 characters; the element's
\* name_or_label is the trimmed text when that has at most 50 characters,
\* and else its first 50 characters followed by "...", whatever prefix the
\* locator shows.
C17_ParagraphFilterAndPreview ==
    (via = "paragraph" /\ ~node.detached) =>
        LET text == IF node.textContent = NULL THEN <<>>
                    ELSE Trim(node.textContent)
        IN  /\ (out # NoElement) <=> (Len(text) > 10)
            /\ (out # NoElement) =>
                  out.name_or_label =
                      IF Len(text) <= 50 THEN text
                      ELSE SubSeq(text, 1, 50) \o <<".", ".", ".">>

\* a paragraph of 51 characters was named by its first 50 and "..."
C17_Witness ==
    /\ via = "paragraph"
    /\ node.textContent = X_51
    /\ out # NoElement
    /\ out.name_or_label = X_50 \o <<".", ".", ".">>

\* the trimmed text of the first li of a list node
FirstItemText(n) ==
    IF n.items[1] = NULL THEN <<>> ELSE Trim(n.items[1])

\* the element a list node with items gets is named "unordered list with N
\* items" for ul and "ordered list with N items" for ol
ListNamedByCount ==
    LET word == IF ToLowerCase(node.tagName) = S_ul
                  THEN <<"u", "n">> \o S_ordered ELSE S_ordered
    IN  out.name_or_label
            = word \o <<" ", "l", "i", "s", "t", " ", "w", "i", "t", "h", " ">>
                \o NumStr(Len(node.items)) \o <<" ", "i", "t", "e", "m", "s">>

\* C18 as stated: a list node yields no element when it has no li item and
\* else one element named by its kind and item count; with no id and no
\* class its suggested_locator is derived from (contains) the trimmed text
\* of the first item.
C18_ListLocatorFromFirstItem ==
    (via = "list" /\ ~node.detached) =>
        /\ (out = NoElement) <=> (node.items = <<>>)
        /\ (out # NoElement) =>
              /\ ListNamedByCount
              /\ (/\ ~Present(node.attrs["id"])
                  /\ ~Present(node.attrs["class"])
                  /\ FirstItemText(node) # <<>>)
                    => Includes(out.suggested_locator,
                                EscapeDouble(FirstItemText(node)))

\* C18, amended: a list node yields no element when it has no li item and
\* else one element named by its kind and item count; with no id and no
\* class its suggested_locator is the tag with a has-text filter on the
\* trimmed text of the first item when that text is not empty and shorter
\* than 50 characters, and the bare tag otherwise.
C18_ListSummary ==
    (via = "list" /\ ~node.detached) =>
        /\ (out = NoElement) <=> (node.items = <<>>)
        /\ (out # NoElement) =>
              /\ ListNamedByCount
              /\ (~Present(node.attrs["id"]) /\ ~Present(node.attrs["class"]))
                    => LET first == FirstItemText(node)
                           tag == ToLowerCase(node.tagName)
                       IN  out.suggested_locator =
                               IF first # <<>> /\ Len(first) < 50
                                 THEN L_locator \o tag \o L_hasText
                                        \o EscapeDouble(first) \o L_hasTextEnd
                                 ELSE L_locator \o tag \o L_end

\* an ol with three items and neither id nor class got the has-text
\* locator of its first item
C18_Witness ==
    /\ via = "list"
    /\ node.tagName = T_OL
    /\ Len(node.items) = 3
    /\ ~Present(node.attrs["id"])
    /\ ~Present(node.attrs["class"])
    /\ out # NoElement
    /\ out.suggested_locator
          = L_locator \o S_ol \o L_hasText \o EscapeDouble(X_quotes)
              \o L_hasTextEnd


(***************************************************************************)
(* Properties of the analysis of a page without elements (SpecPage).       *)
(***************************************************************************)
\* no node of the page matches a selector of the catalogue or a content pass
NothingMatches ==
    \A n \in 1..Len(dom) :
        /\ \A i \in 1..Len(locators) : ~MatchesSelector(dom[n], locators[i])
        /\ \A p \in 1..Len(passes) : ~MatchesContent(dom[n], passes[p])

\* C19: on a page none of whose nodes matches, key_elements, form_fields,
\* interactive_elements, navigation_elements, content_elements and
\* high_level_actions are all empty at every step of the analysis and in
\* its result; on any page, an empty category yields no element and no
\* action label of that category, and the result is still produced.
C19_EmptyPageAnalysed ==
    /\ NothingMatches =>
          /\ stage \in {"start", "elements", "content", "categorized", "done"}
          /\ keyElements = <<>>
          /\ formFields = <<>>
          /\ interactiveElements = <<>>
          /\ navigationElements = <<>>
          /\ contentElements = <<>>
          /\ highLevelActions = <<>>
    /\ (stage = "done") =>
          LET actions == Range(highLevelActions)
          IN  /\ keyElements = <<>> =>
                    /\ formFields = <<>>
                    /\ interactiveElements = <<>>
                    /\ navigationElements = <<>>
              /\ formFields = <<>> => "fill form fields" \notin actions
              /\ interactiveElements = <<>> =>
                    actions \cap {"submit form", "navigate via links",
                                  "interact with buttons"} = {}
              /\ contentElements = <<>> =>
                    actions \subseteq {"fill form fields", "submit form",
                                       "navigate via links",
                                       "interact with buttons"}

\* a page of two div elements was analysed to the end with nothing found
C19_Witness ==
    /\ stage = "done"
    /\ dom = <<N_div, N_div>>
    /\ keyElements = <<>>
    /\ contentElements = <<>>
    /\ highLevelActions = <<>>


(***************************************************************************)
(* Properties of the scenario generation (SpecScenarios).                  *)
(***************************************************************************)
\* the request failed, brought no content, or brought content that is not
\* JSON
RequestUnusable ==
    \/ completion.rejected
    \/ completion.choices = <<>>
    \/ completion.choices[1].content \in {NULL, <<>>}
    \/ ~IsValidJson(completion.choices[1].content)

\* the user story contains "login" or a form field's name contains
\* "password", in any letter case
LooksLikeLogin ==
    \/ Includes(ToLowerCase(userStory), <<"l", "o", "g", "i", "n">>)
    \/ \E f \in Range(formFields) :
          Includes(ToLowerCase(f.name_or_label),
                   <<"p", "a", "s", "s", "w", "o", "r", "d">>)

\* C20: a call of generateScenarios that has ended has returned a feature
\* to its caller; when the request failed, brought no content or brought
\* content that is not valid JSON, that feature is "User Authentication" if
\* the user story contains "login" or a form field's name contains
\* "password" (in any letter case), and "Page Functionality" otherwise.
C20_FallbackOnFailure ==
    /\ genPc \in {"idle", "awaiting", "returned"}
    /\ (genPc = "returned") =>
          /\ feature # Idle
          /\ RequestUnusable =>
                feature.name = IF LooksLikeLogin THEN "User Authentication"
                               ELSE "Page Functionality"
          /\ ~RequestUnusable => "json" \in DOMAIN feature

\* a truncated JSON answer for a story without "login", on a page with a
\* Password field, gave the authentication fallback
C20_Witness ==
    /\ genPc = "returned"
    /\ userStory = Y_view
    /\ ~completion.rejected
    /\ completion.choices = <<[content |-> R_cut]>>
    /\ Len(formFields) = 2
    /\ feature.name = "User Authentication"


(***************************************************************************)
(* Properties of the interactive locator rules (SpecElement).              *)
(***************************************************************************)
\* C21: the rule "role textbox and aria-label present" never decides: an
\* element with an aria-label gets the testid locator when it has a
\* data-testid and the label locator of the earlier aria-label rule when it
\* has none, whatever its role, name, placeholder, name attribute and id;
\* it never gets a role+name, placeholder, name, id or tag locator.
C21_TextboxLabelRuleNeverDecides ==
    (/\ via = "extractElementInfo"
     /\ out # NoElement
     /\ Present(node.attrs["aria-label"])) =>
        LET a == node.attrs
            StartsWith(prefix) ==
                /\ Len(out.suggested_locator) >= Len(prefix)
                /\ SubSeq(out.suggested_locator, 1, Len(prefix)) = prefix
        IN  /\ out.suggested_locator =
                  IF Present(a["data-testid"])
                    THEN L_testid \o a["data-testid"] \o L_end
                    ELSE L_label \o a["aria-label"] \o L_end
            /\ \A prefix \in {L_roleButton, L_roleLink, L_placeholder,
                              L_nameAttr, L_idSel} : ~StartsWith(prefix)
            /\ out.suggested_locator
                  # L_locator \o ToLowerCase(node.tagName) \o L_end

\* a text input with aria-label and placeholder and no data-testid got the
\* label locator
C21_Witness ==
    /\ via = "extractElementInfo"
    /\ out # NoElement
    /\ out.role = S_textbox
    /\ Present(node.attrs["aria-label"])
    /\ Present(node.attrs["placeholder"])
    /\ ~Present(node.attrs["data-testid"])
    /\ out.suggested_locator = L_label \o node.attrs["aria-label"] \o L_end

\* the launched browsers that are not closed
NotClosed == {b \in 1..Len(browsers) : browsers[b].state # "closed"}

\* C22: in a sequential history of analyzePage and close() calls, close()
\* without a browser handle changes nothing; close() with a handle closes
\* that browser, which is thereby closed exactly once, and clears the
\* handle; an analyzePage that starts without a handle launches a fresh
\* browser, and a browser is launched only when every earlier one is closed;
\* so at every quiescent point at most one launched browser is not closed.
C22_SequentialLifecycle ==
    /\ [](Quiescent =>
            /\ Cardinality(NotClosed) <= 1
            /\ NotClosed = IF browser = 0 THEN {} ELSE {browser}
            /\ browser # 0 => browsers[browser].state = "open")
    /\ [](\A b \in 1..Len(browsers) :
            /\ browsers[b].closes <= 1
            /\ browsers[b].state = "closed" => browsers[b].closes = 1)
    /\ [][(CloseStart /\ browser = 0) =>
            UNCHANGED <<browser, browsers, calls>>]_vars
    /\ [][\A b \in 1..Len(browsers) :
            CloseDone(b) => /\ b = browser
                            /\ browsers[b].closes = 1
                            /\ browsers'[b].state = "closed"
                            /\ browsers'[b].pending = 0
                            /\ browser' = 0]_vars
    /\ [][(browser = 0 /\ \E r \in CallStates : Initialize(r)) =>
            \E r \in BagToSet(calls') : r.pc = "launching"]_vars
    /\ [][Len(browsers') > Len(browsers) =>
            /\ browser = 0
            /\ NotClosed = {}
            /\ browser' = Len(browsers')
            /\ browsers'[browser'].state = "open"]_vars

\* after a first analysis and a completed close(), a second analyzePage
\* launched a second browser and returned its PageAnalysis; the first
\* browser was closed once and the handle is the second browser
C22_Witness ==
    /\ Quiescent
    /\ Len(browsers) = 2
    /\ browsers[1].state = "closed"
    /\ browsers[1].closes = 1
    /\ browser = 2
    /\ browsers[2].state = "open"
    /\ \E r \in CallStates :
          r.pc = "done" /\ r.page = 2 /\ r.result = "PageAnalysis"
    /\ \E r \in CallStates :
          r.pc = "done" /\ r.page = 1 /\ r.result = "PageAnalysis"

\* no analyzePage call has opened its page on a handle that close() had
\* already started to close (on an absent handle newPage cannot open one)
C23_NoPageOnClosingHandle ==
    \A r \in CallStates : r.page # 0 => ~r.onClosing

\* browser.close() has been called at most once on every launched browser
C23_NoBrowserClosedTwice ==
    \A b \in 1..Len(browsers) : browsers[b].closes <= 1

\* C23: under any interleaving of close() with analyzePage calls, no
\* analyzePage call opens a page on a browser handle that is absent or that
\* close() has already started to close, and no browser is closed twice:
\* two overlapping close() calls close the browser once.
C23_CloseSafeUnderInterleaving ==
    /\ C23_NoPageOnClosingHandle
    /\ C23_NoBrowserClosedTwice

=============================================================================
